---------------------------- MODULE Spec2Model ----------------------------
(***************************************************************************)
(* Model of tools/memory_test_harness.py: the serial reader thread         *)
(* (SerialFollower._run), the bounded-wait consumer (Harness.wait_for),    *)
(* the stability sampler (Harness.capture_health_when_stable) and the run  *)
(* state machine (Harness.run).                                            *)
(*                                                                         *)
(* Text.  A serial byte stream is a sequence of tokens.  "LF" and "CR" are *)
(* the bytes \n and \r, "BAD" is a byte sequence that is not valid UTF-8,  *)
(* and every other token is a fragment of text that one of the harness's   *)
(* regular expressions recognises (or, for "X", none of them).  A regular  *)
(* expression is modelled by the set of fragments it matches and by        *)
(* whether it is anchored at the start of the line ("^...", or re.match).  *)
(*                                                                         *)
(* Time.  One tick is 50 ms.  A deadline is kept as the number of ticks    *)
(* left until it (deadline - time.time()), clipped below at 0 and          *)
(* saturated above at Far, "more than Cap ticks": a saturated timer may    *)
(* stay saturated over any number of ticks.                                *)
(***************************************************************************)
EXTENDS Integers, Sequences, FiniteSets, TLC

\* ------------------------------------------------------------------ bounds
\* Most bytes (tokens) the serial port delivers in one behaviour of SpecReader.
MaxBytes == 4
\* Most lines the serial port delivers in one behaviour of SpecWait.
MaxLines == 2
\* Most wait_for calls the test driver of SpecWait issues.
MaxCalls == 2
\* Most capture_health_when_stable calls the test driver of SpecHealth issues.
MaxHealthCalls == 1
\* Most lines the serial port delivers in one behaviour of SpecRun.
MaxRunLines == 1
\* Most lines the serial port delivers in one behaviour of SpecReboot.
MaxMarkerLines == 1
\* Lines the device sends during a scheduled baseline run.
MaxBaselineLines == 1
\* Most lines the serial port delivers in one behaviour of SpecLock.
MaxLockLines == 2
\* Most current_ip and wait_for calls the orchestrator makes in SpecLock.
MaxLockCalls == 2
\* Most Harness.http calls the test driver of SpecHttp issues.
MaxHttpCalls == 2
\* Most bytes (tokens) the serial port delivers in one behaviour of SpecDerive.
MaxDeriveBytes == 4
\* Most records in each of the two memory journals compare_runs reads.
MaxRows == 2
\* Most URLs in one call of _http_parallel_get.
MaxUrls == 3
\* Most serial lines in one behaviour of SpecReady.
MaxReadyLines == 2
\* Most calls of reboot_fire_and_forget in one behaviour of SpecFire.
MaxFireCalls == 4
\* Most polls and reads without data, and most bytes, in one behaviour of
\* SpecRetry.
MaxReadErrors == 2
MaxRetryBytes == 3

\* --------------------------------------------------------------- constants
\* wait_for: remaining = max(0.05, ...), in ticks of 50 ms.
Floor == 1
\* wait_for: lines.get(timeout=min(0.25, remaining)), in ticks of 50 ms.
Poll == 5
\* Timers saturate above Cap ticks (Cap = Poll: min(Poll, remaining) is exact).
Cap == Poll
Far == Cap + 1

None == "None"
\* wait_for's None, as a queue item.
NoLine == [id |-> 0, text |-> <<>>]

Min(a, b) == IF a < b THEN a ELSE b
Max(a, b) == IF a > b THEN a ELSE b

\* ------------------------------------------------------------------- text
LF == "LF"
CR == "CR"

\* Text fragments.  MEMHB: "[Mem] hb hf=.. .. pl=..", MEMMQTT: the same
\* with a tag mqtt_.., MEM: the same with the tag boot, MEMLOW: the tag boot
\* again with other counters, TRIP: "[Mem] TRIPWIRE fired tag=boot hin=98B < 100B",
\* TRIPGE: "[Mem] TRIPWIRE fired tag=hb hin=200B < 100B",
\* TASK: "[Task] name=.. prio=.. core=.. stack_rem=..B", STACK: the AsyncTCP
\* stack watermark line, IP1: "Got IP: 10.0.0.1", FW: "Firmware: v1.0",
\* ROM: "ESP-ROM:esp32..", RST: "rst:0x1 ..", BOOT: "System Boot",
\* SETUP: "[Main] Setup complete", GURU: "Guru Meditation Error", PANIC:
\* "panic'ed", CANARY: "Stack canary watchpoint triggered", BT: "Backtrace:",
\* ABORT: "abort()", BROWN: "brownout", X: any other text, REPL: U+FFFD.
Fragments == {"MEMHB", "MEMMQTT", "MEM", "MEMLOW", "TRIP", "TRIPGE", "TASK",
              "STACK", "IP1", "FW", "ROM", "RST", "BOOT", "SETUP", "GURU",
              "PANIC", "CANARY", "BT", "ABORT", "BROWN", "X", "REPL"}

\* A compiled regular expression: the fragments it matches, and its anchor.
MEM_RE == [hits |-> {"MEMHB", "MEMMQTT", "MEM", "MEMLOW"}, anchored |-> TRUE]
TRIPWIRE_RE == [hits |-> {"TRIP", "TRIPGE"}, anchored |-> TRUE]
TASK_RE == [hits |-> {"TASK"}, anchored |-> TRUE]
ASYNCTCP_STACK_RE == [hits |-> {"STACK"}, anchored |-> TRUE]
IP_RE == [hits |-> {"IP1"}, anchored |-> FALSE]
FW_RE == [hits |-> {"FW"}, anchored |-> FALSE]
ESP_ROM_RE == [hits |-> {"ROM"}, anchored |-> TRUE]
ESP_RST_RE == [hits |-> {"RST"}, anchored |-> TRUE]
SETUP_COMPLETE_RE == [hits |-> {"SETUP"}, anchored |-> TRUE]
SYSTEM_BOOT_RE == [hits |-> {"BOOT"}, anchored |-> FALSE]
MEM_HB_RE == [hits |-> {"MEMHB"}, anchored |-> FALSE]
MEM_MQTT_RE == [hits |-> {"MEMMQTT"}, anchored |-> FALSE]

\* _PANIC_MARKERS, in the configured order: <<kind, pattern>>.
PANIC_MARKERS ==
    << <<"guru_meditation", [hits |-> {"GURU"}, anchored |-> FALSE]>>,
       <<"panic", [hits |-> {"PANIC"}, anchored |-> FALSE]>>,
       <<"stack_canary", [hits |-> {"CANARY"}, anchored |-> FALSE]>>,
       <<"backtrace", [hits |-> {"BT"}, anchored |-> TRUE]>>,
       <<"abort", [hits |-> {"ABORT"}, anchored |-> FALSE]>>,
       <<"brownout", [hits |-> {"BROWN"}, anchored |-> FALSE]>> >>

\* The named groups of _MEM_RE in a memory line, after int().
Mem(tag, hf, hm, hl, hi, hin, frag, pf, pm, pl) ==
    [tag |-> tag, hf |-> hf, hm |-> hm, hl |-> hl, hi |-> hi, hin |-> hin,
     frag |-> frag, pf |-> pf, pm |-> pm, pl |-> pl]
MemFields(fragment) ==
    CASE fragment = "MEM" -> Mem("boot", 40, 10, 9, 35, 30, 1, 200, 300, 90)
      [] fragment = "MEMLOW" -> Mem("boot", 20, 30, 8, 15, 10, 3, 300, 100, 80)
      [] fragment = "MEMHB" -> Mem("hb", 30, 20, 7, 25, 20, 2, 100, 200, 70)
      [] fragment = "MEMMQTT" -> Mem("mqtt_connected", 35, 15, 6, 30, 25, 0, 150, 250, 60)

\* The named groups of _TRIPWIRE_RE in a tripwire line, after int().
TripwireFields(fragment) ==
    CASE fragment = "TRIP" -> [tag |-> "boot", hin |-> 98, threshold |-> 100]
      [] fragment = "TRIPGE" -> [tag |-> "hb", hin |-> 200, threshold |-> 100]

\* pattern.search(line) for a compiled pattern; re.match is the anchored case.
Search(rx, line) ==
    IF rx.anchored
    THEN Len(line) > 0 /\ line[1] \in rx.hits
    ELSE \E i \in 1..Len(line) : line[i] \in rx.hits

\* Mutant: the CR of a CRLF is kept.
RStripCR_Keep(bytes) == bytes

\* line_bytes.rstrip(b"\r"): every trailing CR goes.
RECURSIVE RStripCR(_)
RStripCR(bytes) ==
    IF Len(bytes) > 0 /\ bytes[Len(bytes)] = CR
    THEN RStripCR(SubSeq(bytes, 1, Len(bytes) - 1))
    ELSE bytes

\* line_bytes.decode("utf-8", errors="replace")
Decode(bytes) ==
    [i \in 1..Len(bytes) |-> IF bytes[i] = "BAD" THEN "REPL" ELSE bytes[i]]

\* Mutant: the end of the buffer ends a line too.
FirstLF_OrEnd(bytes, i) ==
    IF \E j \in i..Len(bytes) : bytes[j] = LF
    THEN CHOOSE j \in i..Len(bytes) :
             bytes[j] = LF /\ \A h \in i..(j - 1) : bytes[h] # LF
    ELSE IF Len(bytes) >= i THEN Len(bytes) + 1 ELSE 0
\* Index of the first LF of buf, 0 when there is none.
RECURSIVE FirstLF(_, _)
FirstLF(bytes, i) ==
    IF i > Len(bytes) THEN 0
    ELSE IF bytes[i] = LF THEN i ELSE FirstLF(bytes, i + 1)

\* ---------------------------------------------------------- scenario names
\* A scenario name as typed: the word core, in upper case when upper (never
\* for the empty word), with blanks around it when pad.  Two names are the
\* same text exactly when they are equal.
Name(core, upper, pad) == [core |-> core, upper |-> upper, pad |-> pad]
Plain(core) == Name(core, FALSE, FALSE)
\* str.strip() and str.lower(); the empty word has no letters to change.
StripName(n) == [n EXCEPT !.pad = FALSE]
LowerName(n) == [n EXCEPT !.upper = FALSE]

SCENARIOS == {"s1", "s2", "s6", "prompt", "s4", "s5"}
SCENARIO_ALIASES ==
    [boot |-> "s1", s1_boot_idle |-> "s1", s2_portal_load |-> "s2",
     portal |-> "s2", s6_browser |-> "s6", browser |-> "s6",
     manual |-> "prompt", s4_macros |-> "s4", macros |-> "s4",
     s5_mqtt |-> "s5", mqtt |-> "s5"]

\* Mutant: the trimmed, lower-cased name is taken as it is.
resolve_scenario_Lenient(name) ==
    LET key == LowerName(StripName(name))
    IN  IF key = Plain("") THEN None ELSE key.core

\* _resolve_scenario: the key for a registered key or alias, else None.
resolve_scenario(name) ==
    LET key == LowerName(StripName(name))
    IN  IF key = Plain("") THEN None
        ELSE IF \E k \in SCENARIOS : key = Plain(k) THEN key.core
        ELSE IF \E k \in DOMAIN SCENARIO_ALIASES : key = Plain(k)
             THEN SCENARIO_ALIASES[key.core]
        ELSE None

\* Every sequence over S of length lo..hi.
SeqsOf(S, lo, hi) == UNION {[1..n -> S] : n \in lo..hi}

VARIABLES
    \* SerialFollower
    fd,                 \* "none" | "open" | "closed"
    rpc,                \* reader thread: "unstarted" | "poll" | "split" | "parse" | "exited"
    stopFlag,           \* _stop
    buf,                \* bytes read and not yet framed
    cur,                \* the line being processed
    rawLog,             \* serial.log, one entry per line
    lines,              \* the live queue: <<[id, text]>>
    events,             \* events.jsonl
    memLog,             \* mem.jsonl
    taskLog,            \* tasks.jsonl
    last_ip,
    firmware_version,
    received,           \* bytes delivered so far
    stream,             \* history: every byte delivered so far
    readErrors,         \* history: polls and reads that gave no data
    \* Harness.wait_for
    wpc,                \* "idle" | "check" | "remaining" | "get" | "returned"
    pattern,
    untilDeadline,      \* deadline - time.time(), clipped and saturated
    getTimer,           \* ticks left of the lines.get timeout
    ret,                \* the value wait_for returned: NoLine or [id, text]
    \* history of the waits
    callStart,          \* lines dequeued before the current call
    cut,                \* lines pushed when the current deadline passed, -1 before
    dequeued,           \* ids of the lines dequeued, in order
    matched,            \* ids of the lines returned as a match, in order
    \* Harness.capture_health_when_stable
    hpc,                \* "idle" | "loop" | "a" | "sleep" | "b" | "returned"
    ha,                 \* a
    hb,                 \* b
    hlast,              \* last
    elapsed,            \* time.time() - start, in seconds, saturated at max_wait_s
    hret,               \* the value the sampler returned
    healthLog,          \* health.jsonl
    nCompared,          \* history: pairs compared in the current call
    nStable,            \* history: those of them within both tolerances
    nProbes,            \* history: capture_health calls of the current call
    probeFailed,        \* history: one of them gave no reading
    \* orchestrator
    pc,
    nCalls,
    cfg,                \* HarnessConfig
    saw_reboot_marker,
    page,               \* S2: index of the page being fetched
    rc,                 \* the scenario's return code
    exc,                \* the exception in flight, None when there is none
    raisedAt,           \* history: the pc at which exc was raised
    summaryJson,        \* summary.json: "absent" | "written" | "failed"
    summaryMd,          \* summary.md:   "absent" | "written" | "failed"
    exitCode,           \* the process exit code, -1 while running
    derived,            \* _summary["derived"], NoDerived before it is computed
    args,               \* main's command line, NoArgs when run() is entered directly
    runDir,             \* the run directory: "absent" | "created"
    markerWindow,       \* history of the reboot confirmation under way: lines
                        \* pushed at the reboot request and at the deadline of
                        \* the ESP-ROM wait, lines dequeued when it returned
    blockedAt,          \* history: the run positions that called input()
    pushedAt,           \* history of the scripted scenario under way: lines
                        \* pushed when it started and when it made its last
                        \* HTTP request so far, -1 before
    state_lock,         \* SerialFollower.state_lock: "free" | "reader" | "orch"
    httpCall,           \* Harness.http: the call under way or last made
    httpRet,            \* Harness.http: what the last call returned or raised
    rows_a,             \* compare_runs: the memory journal of run A
    rows_b,             \* compare_runs: the memory journal of run B
    printed,            \* compare_runs: the report printed and the return code
    urls,               \* _http_parallel_get: the URLs of the call
    issued,             \* history: the outcome of the request of each position
    results,            \* results, in the order the futures completed
    burst,              \* the list _http_parallel_get returned
    rebootCall,         \* reboot_fire_and_forget: what the last call did
    deviceConfig,       \* what the device answers to GET /api/config
    configSave          \* _save_config_no_reboot: what the last call did

readerVars == <<fd, rpc, stopFlag, buf, cur, rawLog, lines, events, memLog,
                taskLog, last_ip, firmware_version, received, stream,
                readErrors>>
journalVars == <<rawLog, events, memLog, taskLog>>
waitVars == <<wpc, pattern, untilDeadline, getTimer, ret, callStart, cut,
              dequeued, matched>>
healthVars == <<hpc, ha, hb, hlast, elapsed, hret, healthLog, nCompared,
                nStable, nProbes, probeFailed>>
httpVars == <<httpCall, httpRet>>
compareVars == <<rows_a, rows_b, printed>>
burstVars == <<urls, issued, results, burst>>
configVars == <<deviceConfig, configSave>>
scriptVars == <<burstVars, rebootCall, configVars>>
toolVars == <<state_lock, httpVars, compareVars, scriptVars>>
mainVars == <<args, runDir, toolVars>>
historyVars == <<markerWindow, blockedAt, pushedAt>>
runVars == <<cfg, saw_reboot_marker, page, rc, exc, raisedAt, summaryJson,
             summaryMd, exitCode, derived, mainVars, historyVars>>
\* runVars without toolVars.
runOwn == <<cfg, saw_reboot_marker, page, rc, exc, raisedAt, summaryJson,
            summaryMd, exitCode, derived, args, runDir, historyVars>>
orchVars == <<pc, nCalls, healthVars, runVars>>
vars == <<readerVars, waitVars, orchVars>>

\* ----------------------------------------------------------- reader thread
\* One structured record per grammar that matches, in the order of the code.
GotIpEvents(line) ==
    IF Search(IP_RE, line)
    THEN <<[type |-> "event", event |-> "got_ip"]>> ELSE <<>>
FirmwareEvents(line) ==
    IF Search(FW_RE, line)
    THEN <<[type |-> "event", event |-> "firmware"]>> ELSE <<>>
\* Mutant: re.search in place of re.match.
MemEvents_Search(line) ==
    IF \E i \in 1..Len(line) : line[i] \in MEM_RE.hits
    THEN <<[type |-> "mem", event |-> line[1]]>> ELSE <<>>
MemEvents(line) ==
    IF Search(MEM_RE, line)
    THEN <<[type |-> "mem", event |-> line[1]]>> ELSE <<>>
TripwireEvents(line) ==
    IF Search(TRIPWIRE_RE, line)
    THEN <<[type |-> "tripwire", event |-> line[1]]>> ELSE <<>>
TaskEvents(line) ==
    IF Search(TASK_RE, line)
    THEN <<[type |-> "task", event |-> line[1]]>> ELSE <<>>
StackEvents(line) ==
    IF Search(ASYNCTCP_STACK_RE, line)
    THEN <<[type |-> "stack_watermark", event |-> line[1]]>> ELSE <<>>

\* Mutant: an elif chain, the first grammar that matches wins.
StructuredFor_FirstMatch(line) ==
    IF GotIpEvents(line) # <<>> THEN GotIpEvents(line)
    ELSE IF FirmwareEvents(line) # <<>> THEN FirmwareEvents(line)
    ELSE MemEvents(line) \o TripwireEvents(line) \o TaskEvents(line)
             \o StackEvents(line)

\* What _run appends to events.jsonl for one line.
StructuredFor(line) ==
    GotIpEvents(line) \o FirmwareEvents(line) \o MemEvents(line)
        \o TripwireEvents(line) \o TaskEvents(line) \o StackEvents(line)

\* select + os.read: a chunk arrives and is appended to buf.
ReaderRead(chunk, limit) ==
    /\ rpc = "poll"
    /\ ~stopFlag
    /\ fd = "open"
    /\ received + Len(chunk) <= limit
    /\ buf' = buf \o chunk
    /\ received' = received + Len(chunk)
    /\ stream' = stream \o chunk
    /\ rpc' = "split"
    /\ UNCHANGED <<fd, stopFlag, cur, rawLog, lines, events, memLog, taskLog,
                   last_ip, firmware_version, readErrors>>
    /\ UNCHANGED <<waitVars, orchVars>>

\* How a pass of the loop can end without data: select times out, os.read
\* raises BlockingIOError or another OSError, or os.read returns b"".
ReadFailures == {"not_ready", "BlockingIOError", "OSError", "empty"}
\* Mutant: an OSError of os.read ends the thread.
AfterReadFailure_Fatal(failure) == IF failure = "OSError" THEN "exited" ELSE "poll"
\* if not r: continue / except ...: continue / if not chunk: continue
AfterReadFailure(failure) == "poll"

\* One pass of the loop that got no data: nothing is buffered and the loop
\* goes back to its test.
ReaderReadFailed ==
    /\ rpc = "poll"
    /\ ~stopFlag
    /\ fd = "open"
    /\ readErrors < MaxReadErrors
    /\ \E failure \in ReadFailures : rpc' = AfterReadFailure(failure)
    /\ readErrors' = readErrors + 1
    /\ UNCHANGED <<fd, stopFlag, buf, cur, rawLog, lines, events, memLog, taskLog,
                   last_ip, firmware_version, received, stream>>
    /\ UNCHANGED <<waitVars, orchVars>>

\* while b"\n" in buf: frame one line, mirror it to serial.log, queue it.
ReaderLine ==
    /\ rpc = "split"
    /\ FirstLF(buf, 1) > 0
    /\ LET k == FirstLF(buf, 1)
           line == Decode(RStripCR(SubSeq(buf, 1, k - 1)))
       IN /\ buf' = SubSeq(buf, k + 1, Len(buf))
          /\ rawLog' = Append(rawLog, line)
          /\ lines' = Append(lines, [id |-> Len(rawLog) + 1, text |-> line])
          /\ cur' = line
    /\ rpc' = "parse"
    /\ UNCHANGED <<fd, stopFlag, events, memLog, taskLog, last_ip,
                   firmware_version, received, stream, readErrors>>
    /\ UNCHANGED <<waitVars, orchVars>>

\* "Parse events": every matcher is tried on the line.
ReaderParse ==
    /\ rpc = "parse"
    /\ last_ip' = IF Search(IP_RE, cur) THEN "IP1" ELSE last_ip
    /\ firmware_version' = IF Search(FW_RE, cur) THEN "FW" ELSE firmware_version
    /\ events' = events \o StructuredFor(cur)
    /\ memLog' = memLog \o MemEvents(cur)
    /\ taskLog' = taskLog \o TaskEvents(cur) \o StackEvents(cur)
    /\ rpc' = "split"
    /\ UNCHANGED <<fd, stopFlag, buf, cur, rawLog, lines, received, stream,
                   readErrors>>
    /\ UNCHANGED <<waitVars, orchVars>>

\* No LF left in buf: back to select.
ReaderSplitDone ==
    /\ rpc = "split"
    /\ FirstLF(buf, 1) = 0
    /\ rpc' = "poll"
    /\ UNCHANGED <<fd, stopFlag, buf, cur, rawLog, lines, events, memLog,
                   taskLog, last_ip, firmware_version, received, stream,
                   readErrors>>
    /\ UNCHANGED <<waitVars, orchVars>>

\* while not self._stop.is_set(): the flag is set, _run returns.
ReaderExit ==
    /\ rpc = "poll"
    /\ stopFlag
    /\ rpc' = "exited"
    /\ UNCHANGED <<fd, stopFlag, buf, cur, rawLog, lines, events, memLog,
                   taskLog, last_ip, firmware_version, received, stream,
                   readErrors>>
    /\ UNCHANGED <<waitVars, orchVars>>

\* -------------------------------------------------------- _derive_metrics
\* 1 << 60, the default of r.get(...): above every counter of the model.
Big == 1000000
Get(r, k, default) == IF k \in DOMAIN r THEN r[k] ELSE default

\* Mutant: the first value, not the least.
MinOver_First(xs) == xs[1]
\* min(...) and max(...) over a generator: a fold over the values in order.
RECURSIVE MinOver(_)
MinOver(xs) ==
    IF Len(xs) = 1 THEN xs[1] ELSE Min(xs[1], MinOver(Tail(xs)))
RECURSIVE MaxOver(_)
MaxOver(xs) ==
    IF Len(xs) = 1 THEN xs[1] ELSE Max(xs[1], MaxOver(Tail(xs)))

\* recs = [json.loads(line) for line in f if line.strip()]: the records of
\* mem.jsonl as the reader wrote them.  A journal that is missing or cannot
\* be read gives recs = [], as an empty one does.
MemRows(journal) == [i \in 1..Len(journal) |-> MemFields(journal[i].event)]
Column(recs, k, default) == [i \in 1..Len(recs) |-> Get(recs[i], k, default)]

\* if recs: derived["hin_min"] = ... derived["tags"] = ...; no key otherwise.
MetricsOf(recs) ==
    IF Len(recs) = 0 THEN [k \in {} |-> 0]
    ELSE [hin_min |-> MinOver(Column(recs, "hin", Big)),
          hm_min |-> MinOver(Column(recs, "hm", Big)),
          pf_min |-> MinOver(Column(recs, "pf", Big)),
          pm_min |-> MinOver(Column(recs, "pm", Big)),
          frag_max |-> MaxOver(Column(recs, "frag", 0)),
          tags |-> {recs[i].tag : i \in 1..Len(recs)}]

NoEvent == [type |-> None, event |-> None]
\* Mutant: the loop has no break, the last tripwire record is kept.
RECURSIVE FirstTripwire_Last(_)
FirstTripwire_Last(journal) ==
    IF journal = <<>> THEN NoEvent
    ELSE IF journal[Len(journal)].type = "tripwire" THEN journal[Len(journal)]
    ELSE FirstTripwire_Last(SubSeq(journal, 1, Len(journal) - 1))
\* for line in f: ... if ev.get("type") == "tripwire": tripwire = ev; break
RECURSIVE FirstTripwire(_)
FirstTripwire(journal) ==
    IF journal = <<>> THEN NoEvent
    ELSE IF Head(journal).type = "tripwire" THEN Head(journal)
    ELSE FirstTripwire(Tail(journal))

\* derived["tripwire"], without its time stamp and the worst-stacks snippet.
TripwireOf(journal) ==
    LET ev == FirstTripwire(journal)
    IN  IF ev = NoEvent THEN [fired |-> FALSE]
        ELSE [fired |-> TRUE, tag |-> TripwireFields(ev.event).tag,
              hin |-> TripwireFields(ev.event).hin,
              threshold |-> TripwireFields(ev.event).threshold]

\* Index of the first CR of a line, 0 when there is none.
RECURSIVE FirstCR(_, _)
FirstCR(line, i) ==
    IF i > Len(line) THEN 0
    ELSE IF line[i] = CR THEN i ELSE FirstCR(line, i + 1)

\* open(serial.log, "r") and "for line in f": the file is read in text mode
\* with universal newlines, so a line ends at the "\n" the reader wrote
\* after each entry and also at a "\r" inside an entry.
RECURSIVE SplitCR(_)
SplitCR(entry) ==
    LET k == FirstCR(entry, 1)
    IN  IF k = 0 THEN <<entry>>
        ELSE <<SubSeq(entry, 1, k - 1)>> \o SplitCR(SubSeq(entry, k + 1, Len(entry)))
RECURSIVE FileLines(_)
FileLines(journal) ==
    IF journal = <<>> THEN <<>>
    ELSE SplitCR(Head(journal)) \o FileLines(Tail(journal))

\* for kind, rx in _PANIC_MARKERS: if rx.search(s): the first kind that
\* matches, None when none does.
RECURSIVE FirstMarker(_, _)
FirstMarker(line, m) ==
    IF m > Len(PANIC_MARKERS) THEN None
    ELSE IF Search(PANIC_MARKERS[m][2], line) THEN PANIC_MARKERS[m][1]
    ELSE FirstMarker(line, m + 1)

\* Harness._detect_panic_from_serial over the lines of the file from idx on.
RECURSIVE ScanPanic(_, _)
ScanPanic(flines, idx) ==
    IF idx > Len(flines) THEN [detected |-> FALSE]
    ELSE IF FirstMarker(flines[idx], 1) # None
    THEN [detected |-> TRUE, kind |-> FirstMarker(flines[idx], 1),
          line |-> flines[idx], line_no |-> idx]
    ELSE ScanPanic(flines, idx + 1)
detect_panic_from_serial == ScanPanic(FileLines(rawLog), 1)

\* Harness._derive_metrics, over the journals as they are when it runs.
derive_metrics ==
    [metrics |-> MetricsOf(MemRows(memLog)),
     tripwire |-> TripwireOf(events),
     panic |-> detect_panic_from_serial]

\* ------------------------------------------------------------------- time
TickTimer(t) == IF t = Far THEN {Far, Cap} ELSE {Max(0, t - 1)}

\* 50 ms pass.
Tick ==
    /\ wpc \in {"check", "remaining", "get"}
    /\ untilDeadline + getTimer > 0
    /\ \E d \in TickTimer(untilDeadline) :
          /\ untilDeadline' = d
          /\ cut' = IF untilDeadline > 0 /\ d = 0 THEN Len(rawLog) ELSE cut
    /\ getTimer' = Max(0, getTimer - 1)
    /\ UNCHANGED <<wpc, pattern, ret, callStart, dequeued, matched>>
    /\ UNCHANGED <<readerVars, orchVars>>

\* --------------------------------------------------------------- wait_for
Clip(t) == IF t > Cap THEN Far ELSE Max(0, t)

\* deadline = time.time() + timeout_s
WaitCall(p, timeout) ==
    /\ wpc' = "check"
    /\ pattern' = p
    /\ untilDeadline' = Clip(timeout)
    /\ getTimer' = 0
    /\ ret' = NoLine
    /\ callStart' = Len(dequeued)
    /\ cut' = IF Clip(timeout) = 0 THEN Len(rawLog) ELSE -1
    /\ UNCHANGED <<dequeued, matched>>

\* while time.time() < deadline: ... else: return None
WaitCheck ==
    /\ wpc = "check"
    /\ wpc' = IF untilDeadline > 0 THEN "remaining" ELSE "returned"
    /\ ret' = NoLine
    /\ UNCHANGED <<pattern, untilDeadline, getTimer, callStart, cut, dequeued,
                   matched>>
    /\ UNCHANGED <<readerVars, orchVars>>

\* remaining = max(0.05, deadline - time.time()); get(timeout=min(0.25, remaining))
WaitRemaining ==
    /\ wpc = "remaining"
    /\ getTimer' = Min(Poll, Max(Floor, untilDeadline))
    /\ wpc' = "get"
    /\ UNCHANGED <<pattern, untilDeadline, ret, callStart, cut, dequeued, matched>>
    /\ UNCHANGED <<readerVars, orchVars>>

\* The head of the queue, as lines.get() takes it.
QueueHead(q) == Head(q)
\* Mutant: get() leaves the line it returns in the queue.
QueueRest_Peek(q) == q
QueueRest(q) == Tail(q)

\* Mutant: the line dequeued is returned without pattern.search.
WaitGetItem_NoSearch ==
    /\ wpc = "get"
    /\ lines # <<>>
    /\ lines' = QueueRest(lines)
    /\ dequeued' = Append(dequeued, QueueHead(lines).id)
    /\ wpc' = "returned"
    /\ ret' = QueueHead(lines)
    /\ matched' = Append(matched, QueueHead(lines).id)
    /\ UNCHANGED <<pattern, untilDeadline, getTimer, callStart, cut>>
    /\ UNCHANGED <<fd, rpc, stopFlag, buf, cur, rawLog, events, memLog, taskLog,
                   last_ip, firmware_version, received, stream, readErrors>>
    /\ UNCHANGED orchVars

\* lines.get returned a line: if pattern.search(line): return line
WaitGetItem ==
    /\ wpc = "get"
    /\ lines # <<>>
    /\ LET item == QueueHead(lines)
       IN /\ lines' = QueueRest(lines)
          /\ dequeued' = Append(dequeued, item.id)
          /\ IF Search(pattern, item.text)
             THEN /\ wpc' = "returned"
                  /\ ret' = item
                  /\ matched' = Append(matched, item.id)
             ELSE /\ wpc' = "check"
                  /\ UNCHANGED <<ret, matched>>
    /\ UNCHANGED <<pattern, untilDeadline, getTimer, callStart, cut>>
    /\ UNCHANGED <<fd, rpc, stopFlag, buf, cur, rawLog, events, memLog, taskLog,
                   last_ip, firmware_version, received, stream, readErrors>>
    /\ UNCHANGED orchVars

\* lines.get timed out: except queue.Empty: continue
WaitGetEmpty ==
    /\ wpc = "get"
    /\ lines = <<>>
    /\ getTimer = 0
    /\ wpc' = "check"
    /\ UNCHANGED <<pattern, untilDeadline, getTimer, ret, callStart, cut,
                   dequeued, matched>>
    /\ UNCHANGED <<readerVars, orchVars>>

WaitSteps == WaitCheck \/ WaitRemaining \/ WaitGetItem \/ WaitGetEmpty

\* ------------------------------------------------------------ HealthSampler
\* capture_health_when_stable's keyword defaults.
SettleS == 2
MaxWaitS == 30
DeltaInternalFreeBytes == 2048
DeltaPsramFreeBytes == 8192

\* A parsed /api/health body: heap_internal_free and psram_free.  "Malformed"
\* is a JSON object whose counters int() rejects.
Sample(ia, pa) == [kind |-> "ok", heap_internal_free |-> ia, psram_free |-> pa]
Malformed == [kind |-> "malformed", heap_internal_free |-> 0, psram_free |-> 0]
\* capture_health's None ("no reading").
NoReading == [kind |-> "none", heap_internal_free |-> 0, psram_free |-> 0]

Abs(x) == IF x < 0 THEN -x ELSE x

\* Mutant: "or" in place of "and".
Stable_Either(a, b) ==
    \/ Abs(b.heap_internal_free - a.heap_internal_free) <= DeltaInternalFreeBytes
    \/ Abs(b.psram_free - a.psram_free) <= DeltaPsramFreeBytes

\* abs(ib - ia) <= delta_internal_free_bytes and abs(pb - pa) <= delta_psram_free_bytes
Stable(a, b) ==
    /\ Abs(b.heap_internal_free - a.heap_internal_free) <= DeltaInternalFreeBytes
    /\ Abs(b.psram_free - a.psram_free) <= DeltaPsramFreeBytes

\* Harness.current_ip
current_ip == IF last_ip # None THEN last_ip ELSE cfg.ip

\* What one capture_health call can return and append to health.jsonl, as
\* <<parsed, records>>: a skipped record with --no-health, nothing without an
\* IP, else the record of the probe; parsed is NoReading unless the device
\* answered 200 with a JSON body.
CaptureHealth(label, answers) ==
    IF ~cfg.health
    THEN {<<NoReading, <<[type |-> "health", label |-> label, skipped |-> TRUE]>> >>}
    ELSE IF current_ip = None
    THEN {<<NoReading, <<>> >>}
    ELSE {<<r, <<[type |-> "health", label |-> label, skipped |-> FALSE]>> >> :
             r \in answers}

\* start = time.time(); last = NoReading
HealthCall ==
    /\ hpc = "idle"
    /\ hpc' = "loop"
    /\ elapsed' = 0
    /\ hlast' = NoReading
    /\ ha' = NoReading
    /\ hb' = NoReading
    /\ hret' = NoReading
    /\ nCompared' = 0
    /\ nStable' = 0
    /\ nProbes' = 0
    /\ probeFailed' = FALSE
    /\ UNCHANGED healthLog

\* Mutant: the budget runs out with no reading.
LastSample_None == NoReading
\* return last
LastSample == hlast

\* Mutant: a probe without a reading is retried in a new iteration.
AfterNoReading_Retry == "a"
\* if not a: return None / if not b: return None
AfterNoReading == "returned"

\* Mutant: after an unstable pair B is the next baseline, one probe follows.
HealthLoop_Baseline ==
    /\ hpc = "loop"
    /\ IF elapsed >= MaxWaitS
       THEN hpc' = "returned" /\ hret' = hlast /\ UNCHANGED ha
       ELSE IF nCompared >= 1
       THEN hpc' = "sleep" /\ ha' = hlast /\ UNCHANGED hret
       ELSE hpc' = "a" /\ UNCHANGED <<hret, ha>>
    /\ UNCHANGED <<hb, hlast, elapsed, healthLog, nCompared, nStable,
                   nProbes, probeFailed>>
    /\ UNCHANGED <<readerVars, waitVars, pc, nCalls, runVars>>

\* while time.time() - start < max_wait_s: ... return last
HealthLoop ==
    /\ hpc = "loop"
    /\ IF elapsed < MaxWaitS
       THEN hpc' = "a" /\ UNCHANGED hret
       ELSE hpc' = "returned" /\ hret' = LastSample
    /\ UNCHANGED <<ha, hb, hlast, elapsed, healthLog, nCompared, nStable,
                   nProbes, probeFailed>>
    /\ UNCHANGED <<readerVars, waitVars, pc, nCalls, runVars>>

\* a = self.capture_health(label=f"{label}_a"); if not a: return NoReading
HealthProbeA(answers) ==
    /\ hpc = "a"
    /\ \E out \in CaptureHealth("a", answers) :
          /\ healthLog' = healthLog \o out[2]
          /\ nProbes' = nProbes + 1
          /\ probeFailed' = (out[1] = NoReading)
          /\ IF out[1] = NoReading
             THEN hpc' = AfterNoReading /\ hret' = NoReading /\ UNCHANGED ha
             ELSE hpc' = "sleep" /\ ha' = out[1] /\ UNCHANGED hret
    /\ UNCHANGED <<hb, hlast, elapsed, nCompared, nStable>>
    /\ UNCHANGED <<readerVars, waitVars, pc, nCalls, runVars>>

\* time.sleep(settle_s); the iteration's HTTP calls take d more seconds.
HealthSleep(delays) ==
    /\ hpc = "sleep"
    /\ \E d \in delays : elapsed' = Min(MaxWaitS, elapsed + SettleS + d)
    /\ hpc' = "b"
    /\ UNCHANGED <<ha, hb, hlast, hret, healthLog, nCompared, nStable,
                   nProbes, probeFailed>>
    /\ UNCHANGED <<readerVars, waitVars, pc, nCalls, runVars>>

\* b = self.capture_health(label=f"{label}_b"); if not b: return NoReading;
\* int() failing: return b; stable: return b; else last = b.
HealthProbeB(answers) ==
    /\ hpc = "b"
    /\ \E out \in CaptureHealth("b", answers) :
          /\ healthLog' = healthLog \o out[2]
          /\ hb' = out[1]
          /\ nProbes' = nProbes + 1
          /\ probeFailed' = (out[1] = NoReading)
          /\ IF out[1] = NoReading
             THEN /\ hpc' = AfterNoReading
                  /\ hret' = NoReading
                  /\ UNCHANGED <<hlast, nCompared, nStable>>
             ELSE IF ha = Malformed \/ out[1] = Malformed
             THEN /\ hpc' = "returned"
                  /\ hret' = out[1]
                  /\ UNCHANGED <<hlast, nCompared, nStable>>
             ELSE IF Stable(ha, out[1])
             THEN /\ hpc' = "returned"
                  /\ hret' = out[1]
                  /\ nCompared' = nCompared + 1
                  /\ nStable' = nStable + 1
                  /\ UNCHANGED hlast
             ELSE /\ hpc' = "loop"
                  /\ hlast' = out[1]
                  /\ nCompared' = nCompared + 1
                  /\ UNCHANGED <<hret, nStable>>
    /\ UNCHANGED <<ha, elapsed>>
    /\ UNCHANGED <<readerVars, waitVars, pc, nCalls, runVars>>

HealthSteps(answers, delays) ==
    \/ HealthLoop
    \/ HealthProbeA(answers)
    \/ HealthSleep(delays)
    \/ HealthProbeB(answers)

\* ------------------------------------------ SpecHealth: the sampler alone
\* What the device may answer to a probe: no reading, counters around the
\* two tolerances, a body with unusable counters.
HealthAnswers ==
    {NoReading, Malformed}
        \cup {Sample(i * (DeltaInternalFreeBytes + 1), p * (DeltaPsramFreeBytes + 1)) :
                 i \in {0, 1}, p \in {0, 1}}
        \cup {Sample(DeltaInternalFreeBytes, DeltaPsramFreeBytes)}
\* Seconds the HTTP calls of one iteration may add to the settle interval.
HealthDelays == {0, MaxWaitS}

HealthDriverCall ==
    /\ pc = "health_driver"
    /\ hpc = "idle"
    /\ nCalls < MaxHealthCalls
    /\ HealthCall
    /\ nCalls' = nCalls + 1
    /\ UNCHANGED <<pc, runVars>>
    /\ UNCHANGED <<readerVars, waitVars>>

HealthDriverReturn ==
    /\ pc = "health_driver"
    /\ hpc = "returned"
    /\ hpc' = "idle"
    /\ UNCHANGED <<ha, hb, hlast, elapsed, hret, healthLog, nCompared, nStable,
                   nProbes, probeFailed>>
    /\ UNCHANGED <<readerVars, waitVars, pc, nCalls, runVars>>

\* ------------------------------------------------- SpecWait: reader + waits
\* The patterns and timeouts the test driver passes to wait_for.
DriverPatterns == {IP_RE, SETUP_COMPLETE_RE}
DriverTimeouts == {0, 1, 10}
\* The driver's serial stream: whole lines.
WaitChunks == {<<"IP1", LF>>, <<"SETUP", LF>>, <<"X", LF>>}

DriverCall ==
    /\ pc = "driver"
    /\ wpc = "idle"
    /\ nCalls < MaxCalls
    /\ \E p \in DriverPatterns, t \in DriverTimeouts : WaitCall(p, t)
    /\ nCalls' = nCalls + 1
    /\ UNCHANGED <<pc, healthVars, runVars>>
    /\ UNCHANGED readerVars

DriverReturn ==
    /\ pc = "driver"
    /\ wpc = "returned"
    /\ wpc' = "idle"
    /\ UNCHANGED <<pattern, untilDeadline, getTimer, ret, callStart, cut,
                   dequeued, matched>>
    /\ UNCHANGED <<readerVars, orchVars>>

ReaderInit ==
    /\ buf = <<>>
    /\ cur = <<>>
    /\ rawLog = <<>>
    /\ lines = <<>>
    /\ events = <<>>
    /\ memLog = <<>>
    /\ taskLog = <<>>
    /\ last_ip = None
    /\ firmware_version = None
    /\ received = 0
    /\ stream = <<>>
    /\ readErrors = 0
    /\ stopFlag = FALSE

WaitInit ==
    /\ wpc = "idle"
    /\ pattern = IP_RE
    /\ untilDeadline = 0
    /\ getTimer = 0
    /\ ret = NoLine
    /\ callStart = 0
    /\ cut = -1
    /\ dequeued = <<>>
    /\ matched = <<>>

HealthInit ==
    /\ hpc = "idle"
    /\ ha = NoReading
    /\ hb = NoReading
    /\ hlast = NoReading
    /\ elapsed = 0
    /\ hret = NoReading
    /\ healthLog = <<>>
    /\ nCompared = 0
    /\ nStable = 0
    /\ nProbes = 0
    /\ probeFailed = FALSE

\* run() entered with a HarnessConfig built by the caller.
NoArgs == [scenario |-> None, port |-> None]
NotPushed == [scenario |-> -1, http |-> -1]
NoWindow == [from |-> -1, to |-> -1, seen |-> -1]

\* No derived metrics yet, no HTTP call made, nothing compared.
NoDerived == [pending |-> TRUE]
NoCall == [method |-> None]
NoReturn == [status |-> -1, raised |-> None]
NoReport == [rc |-> -1]

\* No burst was asked for.
NoBurst == <<[url |-> None, status |-> -1]>>
BurstInit ==
    /\ urls = <<>>
    /\ issued = <<>>
    /\ results = <<>>
    /\ burst = NoBurst
\* reboot_fire_and_forget was not called.
NoReboot == [net |-> None]
\* _save_config_no_reboot was not called; the device has no config to give.
NoSave == [ret |-> None]
NoAnswer == [status |-> 0, kind |-> "garbage", doc |-> <<>>]
ScriptInit ==
    /\ BurstInit
    /\ rebootCall = NoReboot
    /\ deviceConfig = NoAnswer
    /\ configSave = NoSave

\* The lock is free; nothing was asked of Harness.http or compare_runs.
ToolInit ==
    /\ state_lock = "free"
    /\ httpCall = NoCall
    /\ httpRet = NoReturn
    /\ rows_a = <<>>
    /\ rows_b = <<>>
    /\ printed = NoReport
    /\ ScriptInit

\* Harness.__init__ has run: the run directory exists.
RunLocals ==
    /\ saw_reboot_marker = FALSE
    /\ page = 0
    /\ rc = 0
    /\ exc = None
    /\ raisedAt = None
    /\ summaryJson = "absent"
    /\ summaryMd = "absent"
    /\ exitCode = -1
    /\ derived = NoDerived
    /\ markerWindow = NoWindow
    /\ blockedAt = {}
    /\ pushedAt = NotPushed

\* A Harness has been constructed: Harness.__init__ made the run directory.
RunInit ==
    /\ RunLocals
    /\ ToolInit
    /\ args = NoArgs
    /\ runDir = "created"

\* A HarnessConfig, in the fields the model reads.  ip: the "ip" argument
\* (None when absent); pause: the checkpoints of --pause; timeout: --timeout
\* in ticks.
Config(scenario, ip, reboot, interactive, health, pages, pause, timeout) ==
    [scenario |-> scenario, ip |-> ip, reboot |-> reboot,
     interactive |-> interactive, health |-> health, pages |-> pages,
     pause |-> pause, timeout |-> timeout, auth |-> None]
\* --auth user:pass
WithAuth(c, auth) == [c EXCEPT !.auth = auth]

DefaultCfg == Config("s1", "IP0", TRUE, FALSE, TRUE, TRUE, {}, 900)

\* After serial.start(): the port is open and the reader thread runs.
InitWait ==
    /\ ReaderInit
    /\ fd = "open"
    /\ rpc = "poll"
    /\ WaitInit
    /\ HealthInit
    /\ RunInit
    /\ cfg = DefaultCfg
    /\ pc = "driver"
    /\ nCalls = 0

ReaderSteps(chunks, limit) ==
    \/ \E c \in chunks : ReaderRead(c, limit)
    \/ ReaderLine
    \/ ReaderParse
    \/ ReaderSplitDone

NextWait ==
    \/ ReaderSteps(WaitChunks, 2 * MaxLines)
    \/ Tick
    \/ WaitSteps
    \/ DriverCall
    \/ DriverReturn

SpecWait == InitWait /\ [][NextWait]_vars

InitHealth ==
    /\ ReaderInit
    /\ fd = "open"
    /\ rpc = "poll"
    /\ WaitInit
    /\ HealthInit
    /\ RunInit
    /\ cfg \in {Config("s1", ip, TRUE, FALSE, health, TRUE, {}, 900) :
                  ip \in {None, "IP0"}, health \in BOOLEAN}
    /\ pc = "health_driver"
    /\ nCalls = 0

NextHealth ==
    \/ HealthDriverCall
    \/ HealthSteps(HealthAnswers, HealthDelays)
    \/ HealthDriverReturn

SpecHealth == InitHealth /\ [][NextHealth]_vars

\* ------------------------------------------------------------- Harness.run
\* Waits of run and of the scenarios, in ticks of 50 ms.
MarkerTimeout == 400
ShortMarkerTimeout == 10
ReadyTimeout == 600
HbTimeout == 1800
\* S2 fetches "/", "/network.html" and "/firmware.html".
NumPages == 3

readerRest == <<buf, cur, rawLog, lines, memLog, taskLog, last_ip,
                firmware_version, received, stream, readErrors>>
summaryVars == <<summaryJson, summaryMd, exitCode, derived>>

\* The caller takes wait_for's result.
WaitDone ==
    /\ wpc' = "idle"
    /\ UNCHANGED <<pattern, untilDeadline, getTimer, ret, callStart, cut,
                   dequeued, matched>>

\* capture_health_when_stable has returned to a scenario, which drops the
\* result; the locals of the call are gone.
HealthDone ==
    /\ hpc' = "idle"
    /\ ha' = NoReading
    /\ hb' = NoReading
    /\ hlast' = NoReading
    /\ hret' = NoReading
    /\ elapsed' = 0
    /\ nCompared' = 0
    /\ nStable' = 0
    /\ nProbes' = 0
    /\ probeFailed' = FALSE
    /\ UNCHANGED healthLog

\* An exception leaves the try block: control goes to the finally clause.
Raise(e) ==
    /\ exc' = e
    /\ raisedAt' = pc
    /\ pc' = "finally"

Goto(next) ==
    /\ pc' = next
    /\ UNCHANGED <<exc, raisedAt>>

\* Harness.prompt: nothing without --interactive, else input(), which
\* returns on Enter and raises EOFError when stdin is at end of file.
PromptOutcomes_Always == {"enter", "eof"}
PromptOutcomes == IF cfg.interactive THEN {"enter", "eof"} ELSE {"skipped"}

\* The positions at which the run has called input(), after a prompt with
\* the given outcome.
Blocked(outcome) ==
    IF outcome = "skipped" THEN blockedAt ELSE blockedAt \cup {pc}

\* Harness._pause_enabled
pause_enabled(checkpoint) ==
    /\ cfg.pause # {}
    /\ "all" \in cfg.pause \/ checkpoint \in cfg.pause

\* Harness.maybe_pause
PauseOutcomes(checkpoint) ==
    IF pause_enabled(checkpoint) THEN PromptOutcomes ELSE {"skipped"}

\* SerialFollower.start: os.open may fail, the termios calls may fail with
\* the descriptor open and no thread started, else the reader thread runs.
RunStart ==
    /\ pc = "start"
    /\ \E outcome \in {"open_failed", "configure_failed", "started"} :
          CASE outcome = "open_failed" ->
                   /\ Raise("OSError")
                   /\ UNCHANGED <<fd, rpc>>
            [] outcome = "configure_failed" ->
                   /\ fd' = "open"
                   /\ Raise("termios.error")
                   /\ UNCHANGED rpc
            [] outcome = "started" ->
                   /\ fd' = "open"
                   /\ rpc' = "poll"
                   /\ Goto("pause_serial_connected")
    /\ UNCHANGED <<stopFlag, events, readerRest, waitVars, healthVars, nCalls>>
    /\ UNCHANGED <<mainVars, historyVars, cfg, saw_reboot_marker, page, rc, summaryVars>>

\* The three maybe_pause checkpoints of run.
PauseNext ==
    [pause_serial_connected |-> "reboot", pause_after_reboot |-> "wait_boot",
     pause_after_ip |-> "scenario"]
PauseCheckpoint ==
    [pause_serial_connected |-> "serial_connected",
     pause_after_reboot |-> "after_reboot", pause_after_ip |-> "after_ip"]

RunPause ==
    /\ pc \in DOMAIN PauseNext
    /\ \E outcome \in PauseOutcomes(PauseCheckpoint[pc]) :
          /\ blockedAt' = Blocked(outcome)
          /\ IF outcome = "eof" THEN Raise("EOFError") ELSE Goto(PauseNext[pc])
    /\ UNCHANGED <<readerVars, waitVars, healthVars, nCalls>>
    /\ UNCHANGED <<mainVars, markerWindow, pushedAt, cfg, saw_reboot_marker, page, rc, summaryVars>>

\* What reboot_fire_and_forget appends to events.jsonl.
RebootEvents ==
    IF cfg.ip = None THEN <<>>
    ELSE <<[type |-> "http", event |-> "fire_and_forget"]>>

\* if self.cfg.reboot: reboot_fire_and_forget(); wait_for_reboot_marker(...)
RunReboot ==
    /\ pc = "reboot"
    /\ IF cfg.reboot
       THEN /\ markerWindow' = [from |-> Len(rawLog), to |-> -1, seen |-> -1]
            /\ events' = events \o RebootEvents
            /\ WaitCall(ESP_ROM_RE, Min(MarkerTimeout, cfg.timeout))
            /\ Goto("marker_rom")
       ELSE /\ Goto("pause_after_reboot")
            /\ UNCHANGED <<events, waitVars, markerWindow>>
    /\ UNCHANGED <<fd, rpc, stopFlag, readerRest, healthVars, nCalls>>
    /\ UNCHANGED <<mainVars, blockedAt, pushedAt, cfg, saw_reboot_marker, page, rc, summaryVars>>

\* wait_for_reboot_marker: ESP-ROM, then "rst:", then "System Boot"; the
\* first wait that returns a line returns True, else False after the third.
RunMarker ==
    /\ pc \in {"marker_rom", "marker_rst", "marker_boot"}
    /\ wpc = "returned"
    /\ markerWindow' = IF ret # NoLine THEN NoWindow
                       ELSE IF pc = "marker_rom"
                       THEN [from |-> markerWindow.from, to |-> cut,
                             seen |-> Len(dequeued)]
                       ELSE markerWindow
    /\ IF ret # NoLine
       THEN /\ saw_reboot_marker' = TRUE
            /\ WaitDone
            /\ Goto("pause_after_reboot")
       ELSE /\ UNCHANGED saw_reboot_marker
            /\ CASE pc = "marker_rom" ->
                        WaitCall(ESP_RST_RE, ShortMarkerTimeout) /\ Goto("marker_rst")
                 [] pc = "marker_rst" ->
                        WaitCall(SYSTEM_BOOT_RE, ShortMarkerTimeout) /\ Goto("marker_boot")
                 [] pc = "marker_boot" ->
                        WaitDone /\ Goto("reboot_prompt")
    /\ UNCHANGED <<readerVars, healthVars, nCalls>>
    /\ UNCHANGED <<mainVars, blockedAt, pushedAt, cfg, page, rc, summaryVars>>

\* No marker seen: self.prompt("... Press the device RESET button now ...")
RunRebootPrompt ==
    /\ pc = "reboot_prompt"
    /\ \E outcome \in PromptOutcomes :
          /\ blockedAt' = Blocked(outcome)
          /\ IF outcome = "eof" THEN Raise("EOFError") ELSE Goto("pause_after_reboot")
    /\ markerWindow' = NoWindow
    /\ UNCHANGED <<readerVars, waitVars, healthVars, nCalls>>
    /\ UNCHANGED <<mainVars, pushedAt, cfg, saw_reboot_marker, page, rc, summaryVars>>

\* if not saw_reboot_marker: wait_for("System Boot"); else straight to Got IP
RunWaitBoot ==
    /\ pc = "wait_boot"
    /\ wpc = "idle"
    /\ IF ~saw_reboot_marker
       THEN WaitCall(SYSTEM_BOOT_RE, cfg.timeout) /\ Goto("boot_waiting")
       ELSE WaitCall(IP_RE, cfg.timeout) /\ Goto("ip_waiting")
    /\ UNCHANGED <<readerVars, healthVars, nCalls>>
    /\ UNCHANGED <<mainVars, historyVars, cfg, saw_reboot_marker, page, rc, summaryVars>>

\* self.wait_for(_IP_RE, ...) after the wait for "System Boot"
RunWaitIp ==
    /\ pc = "boot_waiting"
    /\ wpc = "returned"
    /\ WaitCall(IP_RE, cfg.timeout)
    /\ Goto("ip_waiting")
    /\ UNCHANGED <<readerVars, healthVars, nCalls>>
    /\ UNCHANGED <<mainVars, historyVars, cfg, saw_reboot_marker, page, rc, summaryVars>>

\* setup_line = self.wait_for(_SETUP_COMPLETE_RE, min(30.0, timeout_s))
RunWaitReady ==
    /\ pc = "ip_waiting"
    /\ wpc = "returned"
    /\ WaitCall(SETUP_COMPLETE_RE, Min(ReadyTimeout, cfg.timeout))
    /\ Goto("ready_waiting")
    /\ UNCHANGED <<readerVars, healthVars, nCalls>>
    /\ UNCHANGED <<mainVars, historyVars, cfg, saw_reboot_marker, page, rc, summaryVars>>

\* if setup_line: append the "ready" record to events.jsonl
RunReady ==
    /\ pc = "ready_waiting"
    /\ wpc = "returned"
    /\ events' = IF ret # NoLine
                 THEN Append(events, [type |-> "ready", event |-> "setup_complete"])
                 ELSE events
    /\ WaitDone
    /\ Goto("pause_after_ip")
    /\ UNCHANGED <<fd, rpc, stopFlag, readerRest, healthVars, nCalls>>
    /\ UNCHANGED <<mainVars, historyVars, cfg, saw_reboot_marker, page, rc, summaryVars>>

\* scenario = _resolve_scenario(self.cfg.scenario) or self.cfg.scenario.lower()
RunScenarioKey ==
    LET resolved == resolve_scenario(Plain(cfg.scenario))
    IN  IF resolved # None THEN resolved ELSE cfg.scenario

\* Where each scripted scenario waits for its first stable sample.
ScenarioEntry ==
    [s1 |-> "s1_after_ip", s2 |-> "s2_before", s6 |-> "s6_before",
     s4 |-> "s4_before", s5 |-> "s5_before"]

\* The scenario dispatch: the five scripts start with a stable sample, the
\* manual scenario prompts, an unknown name gives rc = 2.
RunScenario ==
    /\ pc = "scenario"
    /\ hpc = "idle"
    /\ LET scenario == RunScenarioKey
       IN  CASE \/ scenario \in {"s1", "s1_boot_idle", "boot"}
                \/ scenario \in {"s2", "s2_portal_load", "portal"}
                \/ scenario \in {"s6", "s6_browser", "browser"}
                \/ scenario \in {"s4", "macros", "s4_macros"}
                \/ scenario \in {"s5", "mqtt", "s5_mqtt"} ->
                    /\ HealthCall
                    /\ Goto(ScenarioEntry[resolve_scenario(Plain(scenario))])
                    /\ pushedAt' = [scenario |-> Len(rawLog), http |-> -1]
                    /\ UNCHANGED <<rc, blockedAt>>
             [] scenario \in {"prompt", "manual"} ->
                    /\ \E outcome \in PromptOutcomes :
                          /\ blockedAt' = Blocked(outcome)
                          /\ IF outcome = "eof" THEN Raise("EOFError") /\ UNCHANGED rc
                             ELSE Goto("summary") /\ rc' = 0
                    /\ UNCHANGED <<healthVars, pushedAt>>
             [] OTHER ->
                    /\ rc' = 2
                    /\ Goto("summary")
                    /\ UNCHANGED <<healthVars, blockedAt, pushedAt>>
    /\ UNCHANGED <<readerVars, waitVars, nCalls>>
    /\ UNCHANGED <<mainVars, markerWindow, cfg, saw_reboot_marker, page, summaryVars>>

\* _scenario_s1: after the first stable sample, wait for the heartbeat.
S1AfterIp ==
    /\ pc = "s1_after_ip"
    /\ hpc = "returned"
    /\ HealthDone
    /\ WaitCall(MEM_HB_RE, HbTimeout)
    /\ Goto("s1_hb")
    /\ UNCHANGED <<readerVars, nCalls>>
    /\ UNCHANGED <<mainVars, historyVars, cfg, saw_reboot_marker, page, rc, summaryVars>>

\* _scenario_s1: after the heartbeat wait, the second stable sample.
S1AfterHb ==
    /\ pc = "s1_hb"
    /\ wpc = "returned"
    /\ WaitDone
    /\ HealthCall
    /\ Goto("s1_after_hb")
    /\ pushedAt' = NotPushed
    /\ UNCHANGED <<readerVars, nCalls>>
    /\ UNCHANGED <<mainVars, markerWindow, blockedAt, cfg, saw_reboot_marker, page, rc, summaryVars>>

\* Mutant: a heartbeat wait that timed out makes the scenario fail.
S1Return_TimeoutFails ==
    /\ pc = "s1_after_hb"
    /\ hpc = "returned"
    /\ HealthDone
    /\ rc' = IF ret = NoLine THEN 1 ELSE 0
    /\ Goto("summary")
    /\ UNCHANGED <<readerVars, waitVars, nCalls>>
    /\ UNCHANGED <<mainVars, historyVars, cfg, saw_reboot_marker, page, summaryVars>>

\* _scenario_s1: return 0
S1Return ==
    /\ pc = "s1_after_hb"
    /\ hpc = "returned"
    /\ HealthDone
    /\ rc' = 0
    /\ Goto("summary")
    /\ UNCHANGED <<readerVars, waitVars, nCalls>>
    /\ UNCHANGED <<mainVars, historyVars, cfg, saw_reboot_marker, page, summaryVars>>

\* _scenario_s2: without an IP return 1; with pages fetch them, else note
\* that they were skipped.
S2Before ==
    /\ pc = "s2_before"
    /\ hpc = "returned"
    /\ HealthDone
    /\ IF current_ip = None
       THEN /\ rc' = 1
            /\ Goto("summary")
            /\ pushedAt' = NotPushed
            /\ UNCHANGED <<page, events>>
       ELSE IF cfg.pages
       THEN /\ page' = 1
            /\ Goto("s2_page")
            /\ UNCHANGED <<rc, events, pushedAt>>
       ELSE /\ events' = Append(events, [type |-> "note", event |-> "pages_skipped"])
            /\ Goto("s2_settle")
            /\ UNCHANGED <<rc, page, pushedAt>>
    /\ UNCHANGED <<fd, rpc, stopFlag, readerRest, waitVars, nCalls>>
    /\ UNCHANGED <<mainVars, markerWindow, blockedAt, cfg, saw_reboot_marker, summaryVars>>

\* for p in pages: GET, append the http record, maybe_pause("after_get_" + p)
S2Page ==
    /\ pc = "s2_page"
    /\ events' = Append(events, [type |-> "http", event |-> "GET"])
    /\ pushedAt' = [pushedAt EXCEPT !.http = Len(rawLog)]
    /\ \E outcome \in PauseOutcomes("after_get") :
          /\ blockedAt' = Blocked(outcome)
          /\ IF outcome = "eof"
             THEN Raise("EOFError") /\ UNCHANGED page
             ELSE IF page < NumPages
             THEN page' = page + 1 /\ Goto("s2_page")
             ELSE UNCHANGED page /\ Goto("s2_settle")
    /\ UNCHANGED <<fd, rpc, stopFlag, readerRest, waitVars, healthVars, nCalls>>
    /\ UNCHANGED <<mainVars, markerWindow, cfg, saw_reboot_marker, rc, summaryVars>>

\* time.sleep(2.0); self.wait_for("[Mem] hb", timeout_s=90.0)
S2Settle ==
    /\ pc = "s2_settle"
    /\ WaitCall(MEM_HB_RE, HbTimeout)
    /\ Goto("s2_hb")
    /\ UNCHANGED <<readerVars, healthVars, nCalls>>
    /\ UNCHANGED <<mainVars, historyVars, cfg, saw_reboot_marker, page, rc, summaryVars>>

\* _scenario_s2: after the heartbeat wait, the closing stable sample.
S2AfterHb ==
    /\ pc = "s2_hb"
    /\ wpc = "returned"
    /\ WaitDone
    /\ HealthCall
    /\ Goto("s2_after")
    /\ pushedAt' = NotPushed
    /\ UNCHANGED <<readerVars, nCalls>>
    /\ UNCHANGED <<mainVars, markerWindow, blockedAt, cfg, saw_reboot_marker, page, rc, summaryVars>>

\* _scenario_s2: return 0
S2Return ==
    /\ pc = "s2_after"
    /\ hpc = "returned"
    /\ HealthDone
    /\ rc' = 0
    /\ Goto("summary")
    /\ UNCHANGED <<readerVars, waitVars, nCalls>>
    /\ UNCHANGED <<mainVars, historyVars, cfg, saw_reboot_marker, page, summaryVars>>

\* ------------------------------------------ the scenarios s4, s5 and s6
\* --browser-health-count, and the wait for an mqtt_ snapshot, in ticks.
BrowserHealthCount == 2
MqttTimeout == 600

\* Records the orchestrator appends to events.jsonl.
Http(method) == [type |-> "http", event |-> method]
Note(note) == [type |-> "note", event |-> note]
Times(record, n) == [i \in 1..n |-> record]

\* _maybe_switch_screens: two PUTs when there is an IP.
SwitchScreens == IF current_ip = None THEN <<>> ELSE Times(Http("PUT"), 2)

\* _scenario_s4 up to a return 1: the GET fails, its body is no JSON or has
\* no screens, or the POST fails; each with its note.
S4Failures ==
    [get_failed |-> <<Http("GET"), Note("GET /api/macros failed")>>,
     parse_failed |-> <<Http("GET"), Note("GET /api/macros JSON parse failed")>>,
     no_screens |-> <<Http("GET"), Note("GET /api/macros response missing screens[]")>>,
     post_failed |-> <<Http("GET"), Http("POST"), Note("POST /api/macros failed")>>]

\* _scenario_s4 after the first stable sample: without an IP return 1; GET
\* and POST /api/macros, switch screens, then wait for the heartbeat.
S4Before ==
    /\ pc = "s4_before"
    /\ hpc = "returned"
    /\ HealthDone
    /\ IF current_ip = None
       THEN /\ rc' = 1
            /\ Goto("summary")
            /\ pushedAt' = NotPushed
            /\ UNCHANGED <<events, waitVars>>
       ELSE \E outcome \in DOMAIN S4Failures \cup {"ok"} :
               IF outcome = "ok"
               THEN /\ events' = events \o <<Http("GET"), Http("POST")>> \o SwitchScreens
                    /\ pushedAt' = [pushedAt EXCEPT !.http = Len(rawLog)]
                    /\ WaitCall(MEM_HB_RE, HbTimeout)
                    /\ Goto("s4_hb")
                    /\ UNCHANGED rc
               ELSE /\ events' = events \o S4Failures[outcome]
                    /\ rc' = 1
                    /\ Goto("summary")
                    /\ pushedAt' = NotPushed
                    /\ UNCHANGED waitVars
    /\ UNCHANGED <<fd, rpc, stopFlag, readerRest, nCalls>>
    /\ UNCHANGED <<mainVars, markerWindow, blockedAt, cfg, saw_reboot_marker, page, summaryVars>>

\* _scenario_s5 after the first stable sample: without an IP return 1; GET
\* /api/config, note a missing mqtt_host, switch screens, then wait for an
\* mqtt_ snapshot.
S5Before ==
    /\ pc = "s5_before"
    /\ hpc = "returned"
    /\ HealthDone
    /\ IF current_ip = None
       THEN /\ rc' = 1
            /\ Goto("summary")
            /\ pushedAt' = NotPushed
            /\ UNCHANGED <<events, waitVars>>
       ELSE \E mqtt_host \in {"", "broker"} :
               /\ events' = events \o <<Http("GET")>>
                                \o (IF mqtt_host = ""
                                    THEN <<Note("MQTT host not configured")>>
                                    ELSE <<>>)
                                \o SwitchScreens
               /\ pushedAt' = [pushedAt EXCEPT !.http = Len(rawLog)]
               /\ WaitCall(MEM_MQTT_RE, MqttTimeout)
               /\ Goto("s5_mqtt")
               /\ UNCHANGED rc
    /\ UNCHANGED <<fd, rpc, stopFlag, readerRest, nCalls>>
    /\ UNCHANGED <<mainVars, markerWindow, blockedAt, cfg, saw_reboot_marker, page, summaryVars>>

\* _scenario_s5: whatever the mqtt_ wait gave, wait for the heartbeat.
S5AfterMqtt ==
    /\ pc = "s5_mqtt"
    /\ wpc = "returned"
    /\ WaitCall(MEM_HB_RE, HbTimeout)
    /\ Goto("s5_hb")
    /\ UNCHANGED <<readerVars, healthVars, nCalls>>
    /\ UNCHANGED <<mainVars, historyVars, cfg, saw_reboot_marker, page, rc, summaryVars>>

\* _browser_api_burst: the listed paths and, with health enabled, the
\* /api/health fetches, each logged.
HealthGet == [type |-> "http", event |-> "GET /api/health"]
\* Mutant: the health fetches are part of every burst.
ApiBurst_Always(paths) ==
    Times(Http("GET"), paths) \o Times(HealthGet, BrowserHealthCount)
ApiBurst(paths) ==
    Times(Http("GET"), paths)
    \o Times(HealthGet, IF cfg.health THEN BrowserHealthCount ELSE 0)

\* _scenario_s6, phase 1 and the note that opens phase 2.
S6Home ==
    <<Note("S6: phase 1/3")>> \o Times(Http("GET"), 3) \o ApiBurst(5)
    \o <<Note("S6: phase 2/3")>>
\* _save_macros_apply when it returns True: GET, POST, POST icons/gc.
S6MacrosSaved == <<Http("GET"), Http("POST"), Http("POST")>>
\* _scenario_s6 up to a return 1, after phase 1.
S6Failures ==
    [macros_get_failed |-> <<Http("GET"), Note("S6: macros apply failed")>>,
     macros_post_failed |-> S6MacrosSaved \o <<Note("S6: macros apply failed")>>,
     config_get_failed |->
         S6MacrosSaved \o <<Http("GET"), Note("S6: config save (no reboot) failed")>>,
     config_post_failed |->
         S6MacrosSaved \o <<Http("GET"), Http("POST"),
                            Note("S6: config save (no reboot) failed")>>]

\* _scenario_s6 after the first stable sample: without an IP return 1; the
\* home page load, the two saves, the network page load, then wait for the
\* heartbeat.
S6Before ==
    /\ pc = "s6_before"
    /\ hpc = "returned"
    /\ HealthDone
    /\ IF current_ip = None
       THEN /\ rc' = 1
            /\ Goto("summary")
            /\ pushedAt' = NotPushed
            /\ UNCHANGED <<events, waitVars>>
       ELSE \E outcome \in DOMAIN S6Failures \cup {"ok"} :
               IF outcome = "ok"
               THEN /\ events' = events \o S6Home \o S6MacrosSaved
                                  \o <<Http("GET"), Http("POST")>>
                                  \o <<Note("S6: phase 3/3")>>
                                  \o Times(Http("GET"), 3) \o ApiBurst(3)
                    /\ pushedAt' = [pushedAt EXCEPT !.http = Len(rawLog)]
                    /\ WaitCall(MEM_HB_RE, HbTimeout)
                    /\ Goto("s6_hb")
                    /\ UNCHANGED rc
               ELSE /\ events' = events \o S6Home \o S6Failures[outcome]
                    /\ rc' = 1
                    /\ Goto("summary")
                    /\ pushedAt' = NotPushed
                    /\ UNCHANGED waitVars
    /\ UNCHANGED <<fd, rpc, stopFlag, readerRest, nCalls>>
    /\ UNCHANGED <<mainVars, markerWindow, blockedAt, cfg, saw_reboot_marker, page, summaryVars>>

\* s4, s5, s6: after the heartbeat wait, the closing stable sample.
ScenarioClosing == [s4_hb |-> "s4_after", s5_hb |-> "s5_after", s6_hb |-> "s6_after"]
ScenarioAfterHb ==
    /\ pc \in DOMAIN ScenarioClosing
    /\ wpc = "returned"
    /\ WaitDone
    /\ HealthCall
    /\ Goto(ScenarioClosing[pc])
    /\ pushedAt' = NotPushed
    /\ UNCHANGED <<readerVars, nCalls>>
    /\ UNCHANGED <<mainVars, markerWindow, blockedAt, cfg, saw_reboot_marker, page, rc, summaryVars>>

\* s4, s5, s6: return 0
ScenarioReturn ==
    /\ pc \in {"s4_after", "s5_after", "s6_after"}
    /\ hpc = "returned"
    /\ HealthDone
    /\ rc' = 0
    /\ Goto("summary")
    /\ UNCHANGED <<readerVars, waitVars, nCalls>>
    /\ UNCHANGED <<mainVars, historyVars, cfg, saw_reboot_marker, page, summaryVars>>

\* self._summary["derived"] = self._derive_metrics(), then
\* with open(summary.json, "w") as f: json.dump(...): may raise OSError.
RunSummaryJson ==
    /\ pc = "summary"
    /\ derived' = derive_metrics
    /\ \E ok \in BOOLEAN :
          IF ok THEN summaryJson' = "written" /\ Goto("summary_md")
          ELSE summaryJson' = "failed" /\ Raise("OSError")
    /\ UNCHANGED <<readerVars, waitVars, healthVars, nCalls>>
    /\ UNCHANGED <<mainVars, historyVars, cfg, saw_reboot_marker, page, rc, summaryMd, exitCode>>

\* self._write_summary_md(); return rc
RunSummaryMd ==
    /\ pc = "summary_md"
    /\ \E ok \in BOOLEAN :
          IF ok THEN summaryMd' = "written" /\ Goto("finally")
          ELSE summaryMd' = "failed" /\ Raise("OSError")
    /\ UNCHANGED <<readerVars, waitVars, healthVars, nCalls>>
    /\ UNCHANGED <<mainVars, historyVars, cfg, saw_reboot_marker, page, rc, summaryJson, exitCode, derived>>

\* Mutant: stop() returns when no thread was started.
StopAfterSet_ThreadOnly == IF rpc = "unstarted" THEN "run_exit" ELSE "stop_join"
\* stop(): after self._stop.set(), join only if a thread was started.
StopAfterSet == IF rpc = "unstarted" THEN "stop_close" ELSE "stop_join"

\* finally: self.serial.stop(): self._stop.set()
StopSet ==
    /\ pc = "finally"
    /\ stopFlag' = TRUE
    /\ Goto(StopAfterSet)
    /\ UNCHANGED <<fd, rpc, events, readerRest, waitVars, healthVars, nCalls>>
    /\ UNCHANGED <<mainVars, historyVars, cfg, saw_reboot_marker, page, rc, summaryVars>>

\* self._thread.join(timeout=2.0): the thread has returned, or 2 s passed.
StopJoin ==
    /\ pc = "stop_join"
    /\ \E joined \in BOOLEAN : joined => rpc = "exited"
    /\ Goto("stop_close")
    /\ UNCHANGED <<readerVars, waitVars, healthVars, nCalls>>
    /\ UNCHANGED <<mainVars, historyVars, cfg, saw_reboot_marker, page, rc, summaryVars>>

\* if self._fd is not None: os.close(self._fd); self._fd = None
StopClose ==
    /\ pc = "stop_close"
    /\ fd' = IF fd = "open" THEN "closed" ELSE fd
    /\ Goto("run_exit")
    /\ UNCHANGED <<rpc, stopFlag, events, readerRest, waitVars, healthVars, nCalls>>
    /\ UNCHANGED <<mainVars, historyVars, cfg, saw_reboot_marker, page, rc, summaryVars>>

\* raise SystemExit(main(...)): run's return value, or 1 when an exception
\* propagated out of run.
MainExit ==
    /\ pc = "run_exit"
    /\ exitCode' = IF exc # None THEN 1 ELSE rc
    /\ Goto("done")
    /\ UNCHANGED <<readerVars, waitVars, healthVars, nCalls>>
    /\ UNCHANGED <<mainVars, historyVars, cfg, saw_reboot_marker, page, rc, summaryJson, summaryMd, derived>>

\* ------------------------------------------------- SpecRun: the whole run
\* The command lines of the runs explored.
RunConfigs ==
    {Config("s1", "IP0", TRUE, FALSE, TRUE, TRUE, {}, 900),
     Config("s2", "IP0", FALSE, TRUE, TRUE, TRUE, {"all"}, 900),
     Config("s2", None, TRUE, FALSE, FALSE, FALSE, {}, 2),
     Config("prompt", None, FALSE, TRUE, TRUE, TRUE, {}, 900),
     Config("unknown", None, FALSE, FALSE, TRUE, TRUE, {"after_ip"}, 900)}
\* The serial stream of a run: whole lines.
RunChunks == {<<"ROM", LF>>, <<"IP1", LF>>, <<"MEMHB", LF>>}
\* The device's answers to a probe, and the seconds an iteration may take.
RunAnswers == {NoReading, Sample(0, 0)}
RunDelays == {MaxWaitS}

InitRun ==
    /\ ReaderInit
    /\ fd = "none"
    /\ rpc = "unstarted"
    /\ WaitInit
    /\ HealthInit
    /\ RunInit
    /\ cfg \in RunConfigs
    /\ pc = "start"
    /\ nCalls = 0

NextRun ==
    \/ RunStart \/ RunPause \/ RunReboot \/ RunMarker \/ RunRebootPrompt
    \/ RunWaitBoot \/ RunWaitIp \/ RunWaitReady \/ RunReady \/ RunScenario
    \/ S1AfterIp \/ S1AfterHb \/ S1Return
    \/ S2Before \/ S2Page \/ S2Settle \/ S2AfterHb \/ S2Return
    \/ RunSummaryJson \/ RunSummaryMd
    \/ StopSet \/ StopJoin \/ StopClose \/ MainExit
    \/ ReaderSteps(RunChunks, 2 * MaxRunLines)
    \/ ReaderExit
    \/ Tick
    \/ WaitSteps
    \/ HealthSteps(RunAnswers, RunDelays)

SpecRun == InitRun /\ [][NextRun]_vars

\* ------------------------------- SpecBaseline: the baseline run, scheduled
\* Non-interactive baseline runs: with an IP and a reboot request, and with
\* neither and no health sampling.
BaselineConfigs ==
    {Config("s1", "IP0", TRUE, FALSE, TRUE, TRUE, {}, 900),
     Config("s1", None, FALSE, FALSE, FALSE, TRUE, {"all"}, 2)}
\* The device's answers to a probe: none, and two samples that are not
\* stable together.
BaselineAnswers == {NoReading, Sample(0, 0), Sample(DeltaInternalFreeBytes + 1, 0)}
\* The serial stream: whole lines, a boot marker or a heartbeat.
BaselineChunks == {<<"ROM", LF>>, <<"MEMHB", LF>>}

InitBaseline ==
    /\ ReaderInit
    /\ fd = "none"
    /\ rpc = "unstarted"
    /\ WaitInit
    /\ HealthInit
    /\ RunInit
    /\ cfg \in BaselineConfigs
    /\ pc = "start"
    /\ nCalls = 0

\* The steps of the orchestrator thread.
BaselineRun ==
    \/ RunStart \/ RunPause \/ RunReboot \/ RunMarker \/ RunRebootPrompt
    \/ RunWaitBoot \/ RunWaitIp \/ RunWaitReady \/ RunReady \/ RunScenario
    \/ S1AfterIp \/ S1AfterHb \/ S1Return
    \/ RunSummaryJson \/ RunSummaryMd
    \/ StopSet \/ StopJoin \/ StopClose \/ MainExit
    \/ WaitSteps
    \/ HealthSteps(BaselineAnswers, RunDelays)

NextBaseline ==
    \/ BaselineRun
    \/ ReaderSteps(BaselineChunks, 2 * MaxBaselineLines)
    \/ ReaderExit
    \/ Tick

\* The orchestrator thread keeps running, the clock keeps advancing, and a
\* deadline that lies ahead comes closer.  Nothing is assumed of the device.
FairBaseline ==
    /\ WF_vars(BaselineRun)
    /\ WF_vars(Tick)
    /\ WF_vars(Tick /\ untilDeadline' < untilDeadline)

SpecBaseline == InitBaseline /\ [][NextBaseline]_vars /\ FairBaseline

\* ------------------------------------------------- SpecMain: the program
\* A command line, in the arguments main reads: whether a scenario name is
\* given and the name, --port, the ip argument, --no-reboot,
\* --non-interactive, --no-health and --timeout in ticks.
Args(named, scenario, port, ip, no_reboot, non_interactive, no_health, timeout) ==
    [named |-> named, scenario |-> scenario, port |-> port, ip |-> ip, no_reboot |-> no_reboot,
     non_interactive |-> non_interactive, no_health |-> no_health,
     pause |-> {}, no_pages |-> FALSE, timeout |-> timeout]

\* main: list the scenarios without a name, exit 2 for an unknown name or
\* when no port is detected, else build the config, construct the Harness
\* (which creates the run directory) and call run().
Main ==
    /\ pc = "main"
    /\ IF ~args.named \/ args.scenario = Plain("")
       THEN /\ exitCode' = 0
            /\ pc' = "done"
            /\ UNCHANGED <<cfg, runDir>>
       ELSE IF resolve_scenario(args.scenario) = None
       THEN /\ exitCode' = 2
            /\ pc' = "done"
            /\ UNCHANGED <<cfg, runDir>>
       ELSE \E detected \in (IF args.port = "auto" THEN BOOLEAN ELSE {TRUE}) :
               IF ~detected
               THEN /\ exitCode' = 2
                    /\ pc' = "done"
                    /\ UNCHANGED <<cfg, runDir>>
               ELSE /\ cfg' = Config(resolve_scenario(args.scenario), args.ip,
                                     ~args.no_reboot, ~args.non_interactive,
                                     ~args.no_health, ~args.no_pages,
                                     args.pause, args.timeout)
                    /\ runDir' = "created"
                    /\ pc' = "start"
                    /\ UNCHANGED exitCode
    /\ UNCHANGED <<readerVars, waitVars, healthVars, nCalls>>
    /\ UNCHANGED <<args, toolVars, historyVars, saw_reboot_marker, page, rc, exc,
                   raisedAt, summaryJson, summaryMd, derived>>

\* The names typed: none, empty, blank, unknown ones, and one key or alias
\* for each of the six scenarios.
UnknownNames == {Name("", FALSE, TRUE), Plain("bogus"), Name("s3", TRUE, TRUE)}
AcceptedNames ==
    {Name("boot", TRUE, TRUE), Plain("portal"), Name("s6", FALSE, TRUE),
     Plain("manual"), Name("macros", TRUE, FALSE), Plain("s5_mqtt")}
\* The command lines explored: no reboot, no prompts, the default timeout;
\* health sampling for the baseline scenario only.
MainArgs ==
    {Args(TRUE, n, "dev", "IP0", TRUE, TRUE, n.core # "boot", 900) :
        n \in UnknownNames \cup AcceptedNames \cup {Plain("")}}
    \cup {Args(FALSE, Plain(""), "dev", None, TRUE, TRUE, TRUE, 900),
          Args(TRUE, Plain("s1"), "auto", None, TRUE, TRUE, TRUE, 900)}
\* The serial stream of these runs: whole lines.
MainChunks == {<<"MEMHB", LF>>, <<"MEMMQTT", LF>>}
\* The configuration before main has built one.
NoCfg == Config(None, None, FALSE, FALSE, FALSE, FALSE, {}, 0)

InitMain ==
    /\ ReaderInit
    /\ fd = "none"
    /\ rpc = "unstarted"
    /\ WaitInit
    /\ HealthInit
    /\ RunLocals
    /\ ToolInit
    /\ args \in MainArgs
    /\ runDir = "absent"
    /\ cfg = NoCfg
    /\ pc = "main"
    /\ nCalls = 0

NextMain ==
    \/ Main
    \/ RunStart \/ RunPause \/ RunReboot
    \/ RunWaitBoot \/ RunWaitIp \/ RunWaitReady \/ RunReady \/ RunScenario
    \/ S1AfterIp \/ S1AfterHb \/ S1Return
    \/ S2Before \/ S2Page \/ S2Settle \/ S2AfterHb \/ S2Return
    \/ S4Before \/ S5Before \/ S5AfterMqtt \/ S6Before
    \/ ScenarioAfterHb \/ ScenarioReturn
    \/ RunSummaryJson \/ RunSummaryMd
    \/ StopSet \/ StopJoin \/ StopClose \/ MainExit
    \/ ReaderSteps(MainChunks, 2 * MaxRunLines)
    \/ ReaderExit
    \/ Tick
    \/ WaitSteps
    \/ HealthSteps(RunAnswers, RunDelays)

SpecMain == InitMain /\ [][NextMain]_vars

\* ------------------------------------- SpecReboot: the reboot confirmation
\* The serial stream after the reboot request: whole lines, each a marker.
MarkerChunks == {<<"ROM", LF>>, <<"RST", LF>>, <<"BOOT", LF>>}

\* run() has opened the port and is about to request the reboot.
InitReboot ==
    /\ ReaderInit
    /\ fd = "open"
    /\ rpc = "poll"
    /\ WaitInit
    /\ HealthInit
    /\ RunInit
    /\ cfg \in {Config("s1", "IP0", TRUE, FALSE, TRUE, TRUE, {}, 900),
                Config("s1", None, TRUE, TRUE, TRUE, TRUE, {}, 900)}
    /\ pc = "reboot"
    /\ nCalls = 0

NextReboot ==
    \/ RunReboot
    \/ RunMarker
    \/ RunRebootPrompt
    \/ ReaderSteps(MarkerChunks, 2 * MaxMarkerLines)
    \/ Tick
    \/ WaitSteps

SpecReboot == InitReboot /\ [][NextReboot]_vars

\* ------------------------------------------------ SpecReader: reader alone
\* The bytes the serial port may deliver, in chunks of one or two.
ReaderAlphabet == {"MEM", "TRIP", "TASK", "STACK", "IP1", "FW", "X", "BAD", CR, LF}
ReaderChunks == SeqsOf(ReaderAlphabet, 1, 2)

InitReader ==
    /\ ReaderInit
    /\ fd = "open"
    /\ rpc = "poll"
    /\ WaitInit
    /\ HealthInit
    /\ RunInit
    /\ cfg = DefaultCfg
    /\ pc = "reader_only"
    /\ nCalls = 0

NextReader == ReaderSteps(ReaderChunks, MaxBytes)

SpecReader == InitReader /\ [][NextReader]_vars

\* ------------------------------------------ SpecLock: the shared two fields
\* Mutant: the with statement is dropped, the body runs without the lock.
Acquire_NoLock(owner) == UNCHANGED state_lock
\* with self.state_lock: entered once the lock is free.
Acquire(owner) == state_lock = "free" /\ state_lock' = owner
\* The with block is left.
Release == state_lock' = "free"

lockReaderRest == <<fd, stopFlag, buf, cur, rawLog, lines, received, stream,
                    readErrors>>
lockOrchRest == <<healthVars, runOwn, httpVars, compareVars, scriptVars>>

\* ipm = _IP_RE.search(line); fwm = _FW_RE.search(line): which block is next.
ParseNext(from) ==
    IF from = "parse" /\ Search(IP_RE, cur) THEN "ip_lock"
    ELSE IF from \in {"parse", "ip_emit"} /\ Search(FW_RE, cur) THEN "fw_lock"
    ELSE "parse_rest"

\* "Parse events": ipm = _IP_RE.search(line) decides what comes first.
ParseSearch ==
    /\ rpc = "parse"
    /\ rpc' = ParseNext("parse")
    /\ UNCHANGED <<events, memLog, taskLog, last_ip, firmware_version,
                   state_lock>>
    /\ UNCHANGED <<lockReaderRest, waitVars, pc, nCalls, lockOrchRest>>

\* with self.state_lock: (lines 312 and 319)
ParseAcquire ==
    /\ rpc \in {"ip_lock", "fw_lock"}
    /\ Acquire("reader")
    /\ rpc' = IF rpc = "ip_lock" THEN "ip_write" ELSE "fw_write"
    /\ UNCHANGED <<events, memLog, taskLog, last_ip, firmware_version>>
    /\ UNCHANGED <<lockReaderRest, waitVars, pc, nCalls, lockOrchRest>>

\* self.last_ip = ip / self.firmware_version = ver
ParseWrite ==
    /\ rpc \in {"ip_write", "fw_write"}
    /\ IF rpc = "ip_write"
       THEN last_ip' = "IP1" /\ UNCHANGED firmware_version
       ELSE firmware_version' = "FW" /\ UNCHANGED last_ip
    /\ rpc' = IF rpc = "ip_write" THEN "ip_unlock" ELSE "fw_unlock"
    /\ UNCHANGED <<events, memLog, taskLog, state_lock>>
    /\ UNCHANGED <<lockReaderRest, waitVars, pc, nCalls, lockOrchRest>>

\* The with block of the reader ends.
ParseRelease ==
    /\ rpc \in {"ip_unlock", "fw_unlock"}
    /\ Release
    /\ rpc' = IF rpc = "ip_unlock" THEN "ip_emit" ELSE "fw_emit"
    /\ UNCHANGED <<events, memLog, taskLog, last_ip, firmware_version>>
    /\ UNCHANGED <<lockReaderRest, waitVars, pc, nCalls, lockOrchRest>>

\* self._emit_structured({... "got_ip" ...}) / ({... "firmware" ...})
ParseEmit ==
    /\ rpc \in {"ip_emit", "fw_emit"}
    /\ events' = events \o (IF rpc = "ip_emit" THEN GotIpEvents(cur)
                            ELSE FirmwareEvents(cur))
    /\ rpc' = ParseNext(rpc)
    /\ UNCHANGED <<memLog, taskLog, last_ip, firmware_version, state_lock>>
    /\ UNCHANGED <<lockReaderRest, waitVars, pc, nCalls, lockOrchRest>>

\* The memory, tripwire, task and stack-watermark matchers.
ParseRest ==
    /\ rpc = "parse_rest"
    /\ events' = events \o MemEvents(cur) \o TripwireEvents(cur)
                     \o TaskEvents(cur) \o StackEvents(cur)
    /\ memLog' = memLog \o MemEvents(cur)
    /\ taskLog' = taskLog \o TaskEvents(cur) \o StackEvents(cur)
    /\ rpc' = "split"
    /\ UNCHANGED <<last_ip, firmware_version, state_lock>>
    /\ UNCHANGED <<lockReaderRest, waitVars, pc, nCalls, lockOrchRest>>

\* Harness.current_ip and run's lines 847-848: with self.serial.state_lock:
OrchAcquire ==
    /\ \/ pc = "lock_driver" /\ wpc = "idle" /\ nCalls < MaxLockCalls
       \/ pc = "fw_lock"
    /\ Acquire("orch")
    /\ pc' = IF pc = "fw_lock" THEN "fw_read" ELSE "ip_read"
    /\ nCalls' = IF pc = "fw_lock" THEN nCalls ELSE nCalls + 1
    /\ UNCHANGED <<readerVars, waitVars, lockOrchRest>>

\* if self.serial.last_ip: return self.serial.last_ip /
\* self._summary["firmware_version"] = self.serial.firmware_version
OrchRead ==
    /\ pc \in {"ip_read", "fw_read"}
    /\ pc' = IF pc = "ip_read" THEN "ip_unlock" ELSE "fw_unlock"
    /\ UNCHANGED <<readerVars, waitVars, nCalls, lockOrchRest, state_lock>>

\* The with block of the orchestrator ends.
OrchRelease ==
    /\ pc \in {"ip_unlock", "fw_unlock"}
    /\ Release
    /\ pc' = IF pc = "ip_unlock" THEN "lock_driver" ELSE "done"
    /\ UNCHANGED <<readerVars, waitVars, nCalls, lockOrchRest>>

\* The orchestrator waits on the queue between two reads of the IP.
OrchWait ==
    /\ pc = "lock_driver"
    /\ wpc = "idle"
    /\ nCalls < MaxLockCalls
    /\ WaitCall(IP_RE, Floor)
    /\ nCalls' = nCalls + 1
    /\ UNCHANGED <<pc, readerVars, lockOrchRest, state_lock>>

OrchWaitReturn ==
    /\ pc = "lock_driver"
    /\ wpc = "returned"
    /\ WaitDone
    /\ UNCHANGED <<pc, nCalls, readerVars, lockOrchRest, state_lock>>

\* The end of run: final_ip was read, the firmware version is next.
OrchEnd ==
    /\ pc = "lock_driver"
    /\ wpc = "idle"
    /\ pc' = "fw_lock"
    /\ UNCHANGED <<readerVars, waitVars, nCalls, lockOrchRest, state_lock>>

\* The serial stream: whole lines with an IP, a firmware version or both.
LockChunks == {<<"IP1", LF>>, <<"FW", LF>>, <<"IP1", "FW", LF>>, <<"X", LF>>}

InitLock ==
    /\ ReaderInit
    /\ fd = "open"
    /\ rpc = "poll"
    /\ WaitInit
    /\ HealthInit
    /\ RunInit
    /\ cfg = DefaultCfg
    /\ pc = "lock_driver"
    /\ nCalls = 0

NextLock ==
    \/ \E c \in LockChunks : ReaderRead(c, 3 * MaxLockLines)
    \/ ReaderLine
    \/ ReaderSplitDone
    \/ ParseSearch \/ ParseAcquire \/ ParseWrite \/ ParseRelease
    \/ ParseEmit \/ ParseRest
    \/ OrchAcquire \/ OrchRead \/ OrchRelease
    \/ OrchWait \/ OrchWaitReturn \/ OrchEnd
    \/ Tick
    \/ WaitSteps

SpecLock == InitLock /\ [][NextLock]_vars

\* ------------------------------------------------- SpecHttp: Harness.http
\* What urllib.request.urlopen and the reading of the body can do.  kind:
\* a response object ("response"), HTTPError raised for a status urllib
\* treats as an error ("http_error"), a timeout, URLError, or any other
\* exception; code: the status the device sent; fp: the HTTPError carries
\* a body to read; body: reading the body ends well ("ok"), times out
\* ("timeout") or finds the connection closed early ("cut").
Net(kind, code, fp, body) ==
    [kind |-> kind, code |-> code, fp |-> fp, body |-> body]
NetOutcomes ==
    {Net("response", 200, TRUE, b) : b \in {"ok", "timeout", "cut"}}
        \cup {Net("http_error", c, fp, b) :
                 c \in {404, 503}, fp \in BOOLEAN, b \in {"ok", "timeout", "cut"}}
        \cup {Net(k, 0, FALSE, "ok") : k \in {"timeout", "url_error", "other"}}

Returned(status) == [status |-> status, raised |-> None]
Raised(e) == [status |-> -1, raised |-> e]
BodyError(o) == IF o.body = "timeout" THEN "TimeoutError" ELSE "IncompleteRead"

\* The try statement of Harness.http.  An exception of resp.read() is
\* raised inside the try block and meets the except clauses; an exception
\* of e.read() is raised inside the "except HTTPError" clause, where no
\* clause of the same statement handles it.
HttpResult(read_body, o) ==
    CASE o.kind = "response" ->
             IF read_body /\ o.body # "ok" THEN Returned(0) ELSE Returned(o.code)
      [] o.kind = "http_error" ->
             IF read_body /\ o.fp /\ o.body # "ok" THEN Raised(BodyError(o))
             ELSE Returned(o.code)
      [] OTHER -> Returned(0)

\* urlopen calls one call of Harness.http makes: the try statement is in no loop.
UrlopenCalls(o) == 1

\* One call of Harness.http, from the request to the return or the raise.
HttpRequest ==
    /\ pc = "http_driver"
    /\ nCalls < MaxHttpCalls
    /\ \E method \in {"GET", "POST", "PUT"}, read_body \in BOOLEAN,
          o \in NetOutcomes :
          /\ httpCall' = [method |-> method, read_body |-> read_body,
                          net |-> o, urlopens |-> UrlopenCalls(o)]
          /\ httpRet' = HttpResult(read_body, o)
          /\ exc' = HttpResult(read_body, o).raised
          /\ pc' = IF HttpResult(read_body, o).raised # None
                   THEN "http_raised" ELSE pc
    /\ raisedAt' = IF exc' # None THEN pc ELSE raisedAt
    /\ nCalls' = nCalls + 1
    /\ UNCHANGED <<readerVars, waitVars, healthVars, state_lock, compareVars,
                   scriptVars>>
    /\ UNCHANGED <<cfg, saw_reboot_marker, page, rc, summaryVars, args, runDir,
                   historyVars>>

InitHttp ==
    /\ ReaderInit
    /\ fd = "open"
    /\ rpc = "poll"
    /\ WaitInit
    /\ HealthInit
    /\ RunInit
    /\ cfg = DefaultCfg
    /\ pc = "http_driver"
    /\ nCalls = 0

NextHttp == HttpRequest

SpecHttp == InitHttp /\ [][NextHttp]_vars

\* ------------------------------ SpecDerive: the reader and _derive_metrics
\* The bytes the serial port may deliver, in chunks of one or two.
DeriveAlphabet ==
    {"MEM", "MEMLOW", "MEMHB", "TRIP", "TRIPGE", "GURU", "BT", "X", CR, LF}
DeriveChunks == SeqsOf(DeriveAlphabet, 1, 2)

\* The orchestrator computes the derived metrics, at any moment of the
\* reader's work.
DeriveStep ==
    /\ pc = "derive_driver"
    /\ derived' = derive_metrics
    /\ pc' = "derived"
    /\ UNCHANGED <<readerVars, waitVars, healthVars, nCalls, toolVars>>
    /\ UNCHANGED <<cfg, saw_reboot_marker, page, rc, exc, raisedAt, summaryJson,
                   summaryMd, exitCode, args, runDir, historyVars>>

InitDerive ==
    /\ ReaderInit
    /\ fd = "open"
    /\ rpc = "poll"
    /\ WaitInit
    /\ HealthInit
    /\ RunInit
    /\ cfg = DefaultCfg
    /\ pc = "derive_driver"
    /\ nCalls = 0

NextDerive ==
    \/ ReaderSteps(DeriveChunks, MaxDeriveBytes)
    \/ DeriveStep

SpecDerive == InitDerive /\ [][NextDerive]_vars

\* --------------------------------- SpecE2E: a baseline run, end to end
\* The serial stream of the run: an IP line, the readiness marker, one
\* memory snapshot and one heartbeat.
E2EStream == <<"IP1", LF, "SETUP", LF, "MEM", LF, "MEMHB", LF>>
\* What os.read may return next: k of the bytes that follow those received.
E2EChunk(k) == SubSeq(E2EStream, received + 1, received + k)

\* A non-interactive baseline run without reboot, with or without health
\* probes.
InitE2E ==
    /\ ReaderInit
    /\ fd = "none"
    /\ rpc = "unstarted"
    /\ WaitInit
    /\ HealthInit
    /\ RunInit
    /\ cfg \in {Config("s1", "IP0", FALSE, FALSE, health, TRUE, {}, 2) :
                  health \in BOOLEAN}
    /\ pc = "start"
    /\ nCalls = 0

NextE2E ==
    \/ RunStart \/ RunPause \/ RunReboot
    \/ RunWaitBoot \/ RunWaitIp \/ RunWaitReady \/ RunReady \/ RunScenario
    \/ S1AfterIp \/ S1AfterHb \/ S1Return
    \/ RunSummaryJson \/ RunSummaryMd
    \/ StopSet \/ StopJoin \/ StopClose \/ MainExit
    \/ \E k \in 1..(Len(E2EStream) - received) :
          ReaderRead(E2EChunk(k), Len(E2EStream))
    \/ ReaderLine \/ ReaderParse \/ ReaderSplitDone
    \/ ReaderExit
    \/ Tick
    \/ WaitSteps
    \/ HealthSteps(RunAnswers, RunDelays)

SpecE2E == InitE2E /\ [][NextE2E]_vars

\* ------------------------------------------------ SpecCompare: compare_runs
\* Mutant: a tag keeps the first record seen.
Put_KeepFirst(out, tag, r) ==
    [t \in DOMAIN out \cup {tag} |-> IF t \in DOMAIN out THEN out[t] ELSE r]
\* out[tag] = r
Put(out, tag, r) ==
    [t \in DOMAIN out \cup {tag} |-> IF t = tag THEN r ELSE out[t]]

\* _last_by_tag: for r in rows: tag = r.get("tag"); if tag: out[tag] = r
RECURSIVE last_by_tag(_, _)
last_by_tag(out, rows) ==
    IF rows = <<>> THEN out
    ELSE last_by_tag(Put(out, Head(rows).tag, Head(rows)), Tail(rows))

NoRow == [k \in {} |-> 0]
\* pick: int(v) if isinstance(v, int) else None
Pick(row, k) ==
    IF k \in DOMAIN row THEN [none |-> FALSE, v |-> row[k]]
    ELSE [none |-> TRUE, v |-> 0]
\* delta: "n/a" if a is None or b is None else str(b - a)
Delta(a, b) ==
    IF a.none \/ b.none THEN [na |-> TRUE, value |-> 0]
    ELSE [na |-> FALSE, value |-> b.v - a.v]

\* The "Overall" lines: min() of an empty run raises and the except clause
\* drops the three lines.
Overall(a, b) ==
    IF a = <<>> \/ b = <<>> THEN [shown |-> FALSE]
    ELSE LET a_hin_min == MinOver(Column(a, "hin", Big))
             b_hin_min == MinOver(Column(b, "hin", Big))
         IN  [shown |-> TRUE, a_hin_min |-> a_hin_min, b_hin_min |-> b_hin_min,
              hin_min |-> b_hin_min - a_hin_min]

\* compare_runs: return code 2 and no table when neither run has a tag, else
\* one line per tag with the deltas of hin, hm, frag and pf, the overall
\* lines, and code 0.
compare_runs(a, b) ==
    LET by_tag_a == last_by_tag(NoRow, a)
        by_tag_b == last_by_tag(NoRow, b)
        tags == DOMAIN by_tag_a \cup DOMAIN by_tag_b
        RowOf(by_tag, t) == IF t \in DOMAIN by_tag THEN by_tag[t] ELSE NoRow
    IN  IF tags = {} THEN [rc |-> 2]
        ELSE [rc |-> 0,
              table |-> [t \in tags |->
                  [k \in {"hin", "hm", "frag", "pf"} |->
                      Delta(Pick(RowOf(by_tag_a, t), k),
                            Pick(RowOf(by_tag_b, t), k))]],
              overall |-> Overall(a, b)]

\* _load_mem_rows_from_dir: the records of a run's mem.jsonl as the reader
\* wrote them, none when the file is missing.
CompareLines == {"MEM", "MEMLOW", "MEMHB"}
RunJournals ==
    {[i \in 1..Len(fs) |-> MemFields(fs[i])] : fs \in SeqsOf(CompareLines, 0, MaxRows)}

Compare ==
    /\ pc = "compare_driver"
    /\ printed' = compare_runs(rows_a, rows_b)
    /\ pc' = "compared"
    /\ UNCHANGED <<readerVars, waitVars, healthVars, nCalls, state_lock, httpVars,
                   rows_a, rows_b, scriptVars>>
    /\ UNCHANGED runOwn

InitCompare ==
    /\ ReaderInit
    /\ fd = "none"
    /\ rpc = "unstarted"
    /\ WaitInit
    /\ HealthInit
    /\ RunLocals
    /\ args = NoArgs
    /\ runDir = "created"
    /\ state_lock = "free"
    /\ httpCall = NoCall
    /\ httpRet = NoReturn
    /\ rows_a \in RunJournals
    /\ rows_b \in RunJournals
    /\ printed = NoReport
    /\ ScriptInit
    /\ cfg = DefaultCfg
    /\ pc = "compare_driver"
    /\ nCalls = 0

NextCompare == Compare

SpecCompare == InitCompare /\ [][NextCompare]_vars

\* ------------------------- SpecRetry: reads that fail, and the stop signal
RetryChunks == {<<"X">>, <<LF>>, <<"IP1", LF>>}

\* The reader thread runs; stop() may be called at any moment.
InitRetry ==
    /\ ReaderInit
    /\ fd = "open"
    /\ rpc = "poll"
    /\ WaitInit
    /\ HealthInit
    /\ RunInit
    /\ cfg = DefaultCfg
    /\ pc = "finally"
    /\ nCalls = 0

NextRetry ==
    \/ ReaderSteps(RetryChunks, MaxRetryBytes)
    \/ ReaderReadFailed
    \/ ReaderExit
    \/ StopSet
    \/ StopJoin
    \/ StopClose

SpecRetry == InitRetry /\ [][NextRetry]_vars

\* ------------------------- SpecNoHealth: the scripted scenarios, --no-health
\* Every scripted scenario with --no-health, and the browser scenario with
\* health probes, on a device with a known IP, without reboot and without
\* prompts.
NoHealthConfigs ==
    {Config(scenario, "IP0", FALSE, FALSE, FALSE, TRUE, {}, 2) :
        scenario \in {"s1", "s2", "s4", "s5", "s6"}}
    \cup {Config("s6", "IP0", FALSE, FALSE, TRUE, TRUE, {}, 2)}

InitNoHealth ==
    /\ ReaderInit
    /\ fd = "none"
    /\ rpc = "unstarted"
    /\ WaitInit
    /\ HealthInit
    /\ RunInit
    /\ cfg \in NoHealthConfigs
    /\ pc = "start"
    /\ nCalls = 0

NextNoHealth ==
    \/ RunStart \/ RunPause \/ RunReboot
    \/ RunWaitBoot \/ RunWaitIp \/ RunWaitReady \/ RunReady \/ RunScenario
    \/ S1AfterIp \/ S1AfterHb \/ S1Return
    \/ S2Before \/ S2Page \/ S2Settle \/ S2AfterHb \/ S2Return
    \/ S4Before \/ S5Before \/ S5AfterMqtt \/ S6Before
    \/ ScenarioAfterHb \/ ScenarioReturn
    \/ RunSummaryJson \/ RunSummaryMd
    \/ StopSet \/ StopJoin \/ StopClose \/ MainExit
    \/ ReaderSteps(MainChunks, 2 * MaxRunLines)
    \/ ReaderExit
    \/ Tick
    \/ WaitSteps
    \/ HealthSteps(RunAnswers, RunDelays)

SpecNoHealth == InitNoHealth /\ [][NextNoHealth]_vars

\* ------------------------------------- SpecParallel: _http_parallel_get
\* What a worker's Harness.http call can do: return a status, or raise.
Pending == [done |-> FALSE, raised |-> FALSE, status |-> -1]
WorkerOutcomes ==
    {[done |-> TRUE, raised |-> FALSE, status |-> 200],
     [done |-> TRUE, raised |-> FALSE, status |-> 0],
     [done |-> TRUE, raised |-> TRUE, status |-> -1]}
BurstUrls == {"/api/mode", "/api/health"}

\* results.append(fut.result()), or ("unknown", 0, {}) when it raised.
ResultOf(u, o) ==
    IF o.raised THEN [url |-> "unknown", status |-> 0]
    ELSE [url |-> u, status |-> o.status]

\* by_url = {u: (u, s, h) for (u, s, h) in results if u != "unknown"}: a
\* later result of the same URL replaces an earlier one.
RECURSIVE ByUrl(_, _)
ByUrl(out, rs) ==
    IF rs = <<>> THEN out
    ELSE ByUrl(IF Head(rs).url = "unknown" THEN out
               ELSE Put(out, Head(rs).url, Head(rs)),
               Tail(rs))

\* return [by_url.get(u, (u, 0, {})) for u in urls]
Ordered(us, rs) ==
    LET by_url == ByUrl(NoRow, rs)
    IN  [i \in 1..Len(us) |->
            IF us[i] \in DOMAIN by_url THEN by_url[us[i]]
            ELSE [url |-> us[i], status |-> 0]]

\* if not urls: return []
ParallelEmpty ==
    /\ pc = "parallel_driver"
    /\ urls = <<>>
    /\ burst' = <<>>
    /\ pc' = "parallel_returned"
    /\ UNCHANGED <<urls, issued, results>>
    /\ UNCHANGED <<readerVars, waitVars, healthVars, nCalls, state_lock, httpVars,
                   compareVars, rebootCall, configVars>>
    /\ UNCHANGED runOwn

\* for fut in as_completed(futures): the request of position i is the next
\* to finish.
WorkerDone ==
    /\ pc = "parallel_driver"
    /\ \E i \in 1..Len(urls), o \in WorkerOutcomes :
          /\ ~issued[i].done
          /\ issued' = [issued EXCEPT ![i] = o]
          /\ results' = Append(results, ResultOf(urls[i], o))
    /\ UNCHANGED <<urls, burst, pc>>
    /\ UNCHANGED <<readerVars, waitVars, healthVars, nCalls, state_lock, httpVars,
                   compareVars, rebootCall, configVars>>
    /\ UNCHANGED runOwn

\* Every future has completed: build by_url and return the list.
ParallelReturn ==
    /\ pc = "parallel_driver"
    /\ urls # <<>>
    /\ \A i \in 1..Len(urls) : issued[i].done
    /\ burst' = Ordered(urls, results)
    /\ pc' = "parallel_returned"
    /\ UNCHANGED <<urls, issued, results>>
    /\ UNCHANGED <<readerVars, waitVars, healthVars, nCalls, state_lock, httpVars,
                   compareVars, rebootCall, configVars>>
    /\ UNCHANGED runOwn

\* _http_parallel_get(urls) has submitted one worker per URL.
InitParallel ==
    /\ ReaderInit
    /\ fd = "open"
    /\ rpc = "poll"
    /\ WaitInit
    /\ HealthInit
    /\ RunLocals
    /\ args = NoArgs
    /\ runDir = "created"
    /\ state_lock = "free"
    /\ httpCall = NoCall
    /\ httpRet = NoReturn
    /\ rows_a = <<>>
    /\ rows_b = <<>>
    /\ printed = NoReport
    /\ urls \in SeqsOf(BurstUrls, 0, MaxUrls)
    /\ issued = [i \in 1..Len(urls) |-> Pending]
    /\ results = <<>>
    /\ burst = NoBurst
    /\ rebootCall = NoReboot
    /\ deviceConfig = NoAnswer
    /\ configSave = NoSave
    /\ cfg = DefaultCfg
    /\ pc = "parallel_driver"
    /\ nCalls = 0

NextParallel == ParallelEmpty \/ WorkerDone \/ ParallelReturn

SpecParallel == InitParallel /\ [][NextParallel]_vars

\* ------------------- SpecReady: the waits for boot, IP and readiness
\* The serial stream: whole lines, a boot marker, an IP announcement or the
\* readiness marker, in any order.
ReadyChunks == {<<"BOOT", LF>>, <<"IP1", LF>>, <<"SETUP", LF>>}

\* run() is past the reboot step, with or without a marker seen.
InitReady ==
    /\ ReaderInit
    /\ fd = "open"
    /\ rpc = "poll"
    /\ WaitInit
    /\ HealthInit
    /\ RunInit
    /\ cfg = Config("s1", "IP0", FALSE, FALSE, FALSE, TRUE, {}, 2)
    /\ pc = "wait_boot"
    /\ nCalls = 0

NextReady ==
    \/ RunWaitBoot \/ RunWaitIp \/ RunWaitReady \/ RunReady
    \/ ReaderSteps(ReadyChunks, 2 * MaxReadyLines)
    \/ Tick
    \/ WaitSteps

SpecReady == InitReady /\ [][NextReady]_vars

\* ------------------------------------ SpecFire: reboot_fire_and_forget
\* What the connection attempt can do: succeed, be refused, time out.
FireNets == {"ok", "refused", "timeout"}

\* headers["Authorization"] = _basic_auth_header(self.cfg.auth): the module
\* defines no _basic_auth_header, the call raises NameError.
AuthHeaderOf(c) == [raised |-> "NameError", headers |-> {"Connection"}]

\* The try block of reboot_fire_and_forget for a configured IP: the headers
\* are built, then conn.request connects and sends; any exception becomes
\* the error of the record.
FireAndForget(c, net) ==
    LET built == IF c.auth # None THEN AuthHeaderOf(c)
                 ELSE [raised |-> None, headers |-> {"Connection"}]
    IN  IF built.raised # None
        THEN [net |-> net, sent |-> FALSE, headers |-> {}, error |-> built.raised]
        ELSE IF net # "ok"
        THEN [net |-> net, sent |-> FALSE, headers |-> {}, error |-> net]
        ELSE [net |-> net, sent |-> TRUE, headers |-> built.headers, error |-> None]

\* reboot_fire_and_forget: without an IP nothing is sent or logged; else the
\* request is attempted and one record with its error is logged.
RebootFireAndForget ==
    /\ pc = "fire_driver"
    /\ nCalls < MaxFireCalls
    /\ nCalls' = nCalls + 1
    /\ IF cfg.ip = None
       THEN /\ rebootCall' = [net |-> "unused", sent |-> FALSE, headers |-> {},
                              error |-> None]
            /\ UNCHANGED events
       ELSE \E net \in FireNets :
               /\ rebootCall' = FireAndForget(cfg, net)
               /\ events' = Append(events,
                      [type |-> "http", event |-> "fire_and_forget",
                       error |-> FireAndForget(cfg, net).error])
    /\ UNCHANGED <<fd, rpc, stopFlag, readerRest, waitVars, healthVars, pc>>
    /\ UNCHANGED <<runOwn, state_lock, httpVars, compareVars, burstVars, configVars>>

InitFire ==
    /\ ReaderInit
    /\ fd = "open"
    /\ rpc = "poll"
    /\ WaitInit
    /\ HealthInit
    /\ RunInit
    /\ cfg \in {WithAuth(Config("s1", ip, TRUE, FALSE, TRUE, TRUE, {}, 900), auth) :
                  ip \in {None, "IP0"}, auth \in {None, "user:pass"}}
    /\ pc = "fire_driver"
    /\ nCalls = 0

NextFire == RebootFireAndForget

SpecFire == InitFire /\ [][NextFire]_vars

\* ------------------------------- SpecConfig: _save_config_no_reboot
\* allowed_fields
AllowedFields ==
    {"wifi_ssid", "wifi_password", "device_name", "fixed_ip", "subnet_mask",
     "gateway", "dns1", "dns2", "dummy_setting", "mqtt_host", "mqtt_port",
     "mqtt_username", "mqtt_password", "mqtt_interval_seconds",
     "basic_auth_enabled", "basic_auth_username", "basic_auth_password",
     "backlight_brightness", "screen_saver_enabled",
     "screen_saver_timeout_seconds", "screen_saver_fade_out_ms",
     "screen_saver_fade_in_ms", "screen_saver_wake_on_touch"}
SecretFields == {"wifi_password", "mqtt_password", "basic_auth_password"}

\* payload = {k: doc[k] for k in allowed_fields if k in doc}
Subset(doc) == [k \in DOMAIN doc \cap AllowedFields |-> doc[k]]
\* Mutant: the stored secrets are sent back as fetched.
BlankSecrets_Keep(payload) == payload
\* for secret_field in (...): if secret_field in payload: payload[...] = ""
BlankSecrets(payload) ==
    [k \in DOMAIN payload |-> IF k \in SecretFields THEN "" ELSE payload[k]]

\* The keys a fetched config may have, one of them outside allowed_fields,
\* and the values of a key.
ConfigKeys == {"wifi_ssid", "wifi_password", "basic_auth_password", "firmware"}
ConfigValues == {"", "x"}
ConfigDocs ==
    UNION {[keys -> ConfigValues] : keys \in SUBSET ConfigKeys}
\* What GET /api/config can give: a status and a body that is a JSON
\* object, another JSON value, or no JSON.
ConfigAnswers ==
    {[status |-> st, kind |-> "object", doc |-> d] :
        st \in {200, 404}, d \in ConfigDocs}
    \cup {[status |-> st, kind |-> k, doc |-> <<>>] :
            st \in {200, 0}, k \in {"list", "garbage"}}

\* _save_config_no_reboot: GET, give up unless 200 with a JSON object, build
\* the payload, POST it; True when the POST returned 200.
SaveConfigNoReboot ==
    /\ pc = "config_driver"
    /\ IF deviceConfig.status # 200 \/ deviceConfig.kind # "object"
       THEN /\ events' = Append(events, Http("GET"))
            /\ configSave' = [ret |-> "False", posted |-> FALSE, payload |-> <<>>]
       ELSE \E status \in {200, 0} :
               /\ events' = events \o <<Http("GET"), Http("POST")>>
               /\ configSave' =
                      [ret |-> IF status = 200 THEN "True" ELSE "False",
                       posted |-> TRUE,
                       payload |-> BlankSecrets(Subset(deviceConfig.doc))]
    /\ pc' = "config_saved"
    /\ UNCHANGED <<fd, rpc, stopFlag, readerRest, waitVars, healthVars, nCalls>>
    /\ UNCHANGED <<runOwn, state_lock, httpVars, compareVars, burstVars,
                   rebootCall, deviceConfig>>

InitConfig ==
    /\ ReaderInit
    /\ fd = "open"
    /\ rpc = "poll"
    /\ WaitInit
    /\ HealthInit
    /\ RunLocals
    /\ args = NoArgs
    /\ runDir = "created"
    /\ state_lock = "free"
    /\ httpCall = NoCall
    /\ httpRet = NoReturn
    /\ rows_a = <<>>
    /\ rows_b = <<>>
    /\ printed = NoReport
    /\ BurstInit
    /\ rebootCall = NoReboot
    /\ deviceConfig \in ConfigAnswers
    /\ configSave = NoSave
    /\ cfg = DefaultCfg
    /\ pc = "config_driver"
    /\ nCalls = 0

NextConfig == SaveConfigNoReboot

SpecConfig == InitConfig /\ [][NextConfig]_vars

\* ================================================================= claims
IdsIn(q) == {q[k].id : k \in 1..Len(q)}
Range(f) == {f[k] : k \in 1..Len(f)}

\* C1 (as stated), its timeout clause: when no line that matches the pattern
\* and was not consumed before the call has been pushed before the deadline,
\* wait_for returns None.
C1_Original ==
    wpc = "returned" =>
        LET upto == IF cut = -1 THEN Len(rawLog) ELSE cut
            avail == {i \in (callStart + 1)..upto : Search(pattern, rawLog[i])}
        IN avail = {} => ret = NoLine

\* C1 (amended): a line wait_for returns matches the pattern and is the first
\* matching line, in push order, among the lines not consumed before the
\* call; wait_for returns None only once the deadline has passed, and then no
\* line it dequeued matched.
C1_FirstMatchOrTimeout ==
    wpc = "returned" =>
        IF ret = NoLine
        THEN /\ untilDeadline = 0
             /\ \A i \in (callStart + 1)..Len(dequeued) :
                    ~Search(pattern, rawLog[i])
        ELSE /\ ret.id \in (callStart + 1)..Len(rawLog)
             /\ ret.text = rawLog[ret.id]
             /\ Search(pattern, ret.text)
             /\ \A i \in (callStart + 1)..(ret.id - 1) :
                    ~Search(pattern, rawLog[i])

\* C1 witness: a wait returned a matching line that followed a line it
\* dequeued and found not to match, and the line was pushed after the
\* deadline had passed.
C1_Witness ==
    /\ wpc = "returned"
    /\ ret # NoLine
    /\ ret.id > callStart + 1
    /\ cut # -1
    /\ ret.id > cut

\* C2 (as stated): every line pushed to the queue that no wait_for call
\* returned as its match is still in the queue for a later call.
C2_NoLineLost ==
    \A i \in 1..Len(rawLog) : i \in Range(matched) \/ i \in IdsIn(lines)

\* C3: every line is dequeued at most once and in exactly the order it was
\* pushed (the k-th dequeue takes the k-th pushed line, the queue holds the
\* rest in order), and no line is the match of two wait_for calls.
C3_NoRedelivery ==
    /\ \A k \in 1..Len(dequeued) : dequeued[k] = k
    /\ \A k \in 1..Len(lines) :
           /\ lines[k].id = Len(dequeued) + k
           /\ lines[k].text = rawLog[lines[k].id]
    /\ \A j, k \in 1..Len(matched) : j < k => matched[j] < matched[k]

\* C3 witness: a first call dequeued a line and timed out, a second call
\* has returned the next line as its match.
C3_Witness ==
    /\ nCalls = 2
    /\ wpc = "returned"
    /\ dequeued = <<1, 2>>
    /\ matched = <<2>>
    /\ callStart = 1

\* The run positions inside a scenario body.
ScenarioBody == {"scenario", "s2_page"}

\* C4: whenever run() has ended, by returning or by propagating an
\* exception, the reader's stop flag is set and the serial descriptor is not
\* open: it was closed, or it was never opened.
C4_StoppedOnEveryExit ==
    pc \in {"run_exit", "done"} => stopFlag /\ fd # "open"

\* C4 witness: the termios calls of start() failed with the descriptor
\* open and no thread started; run() has propagated the exception with the
\* descriptor closed.
C4_Witness ==
    /\ pc = "done"
    /\ raisedAt = "start"
    /\ exc = "termios.error"
    /\ rpc = "unstarted"
    /\ fd = "closed"
    /\ stopFlag

\* C5 (as stated): when the scenario body raised, both summary documents
\* have been attempted by the time the run ends.
C5_SummariesAttempted ==
    (pc = "done" /\ raisedAt \in ScenarioBody) =>
        summaryJson # "absent" /\ summaryMd # "absent"

\* C6 (as stated): an exception raised in the scenario body is caught inside
\* run() (none is in flight when run() ends), the summary that would record
\* it is written, and the exit code is not zero.
C6_CaughtAndRecorded ==
    (raisedAt \in ScenarioBody /\ pc \in {"run_exit", "done"}) =>
        /\ exc = None
        /\ summaryJson = "written"
        /\ pc = "done" => exitCode > 0

\* The lines of a byte stream: the text before each LF, its trailing CRs
\* stripped, decoded; the bytes after the last LF are no line.
RECURSIVE LinesOf(_)
LinesOf(bytes) ==
    LET k == CHOOSE j \in 0..Len(bytes) :
                 /\ j > 0 => bytes[j] = LF
                 /\ \A i \in 1..(IF j = 0 THEN Len(bytes) ELSE j - 1) : bytes[i] # LF
        body == SubSeq(bytes, 1, k - 1)
        m == CHOOSE n \in 0..Len(body) :
                 /\ \A i \in (n + 1)..Len(body) : body[i] = CR
                 /\ n > 0 => body[n] # CR
    IN IF k = 0 THEN <<>>
       ELSE <<[i \in 1..m |-> IF body[i] = "BAD" THEN "REPL" ELSE body[i]]>>
                \o LinesOf(SubSeq(bytes, k + 1, Len(bytes)))

TypesFor(line) ==
    (IF \E i \in 1..Len(line) : line[i] = "IP1" THEN <<"got_ip">> ELSE <<>>)
    \o (IF \E i \in 1..Len(line) : line[i] = "FW" THEN <<"firmware">> ELSE <<>>)
    \o (IF line = <<>> THEN <<>>
        ELSE IF line[1] \in {"MEM", "MEMLOW", "MEMHB", "MEMMQTT"} THEN <<"mem">>
        ELSE IF line[1] \in {"TRIP", "TRIPGE"} THEN <<"tripwire">>
        ELSE IF line[1] = "TASK" THEN <<"task">>
        ELSE IF line[1] = "STACK" THEN <<"stack_watermark">>
        ELSE <<>>)

RECURSIVE TypesForAll(_)
TypesForAll(ls) ==
    IF ls = <<>> THEN <<>> ELSE TypesFor(Head(ls)) \o TypesForAll(Tail(ls))

EventType(e) == IF e.type = "event" THEN e.event ELSE e.type

\* C8 (as stated): a line never produces more than one structured record.
C8_Original ==
    Len(events) <= Len(rawLog)

\* C8 (amended): every grammar is tried on every line, in the order IP,
\* firmware, mem, tripwire, task, stack watermark, and each one that matches
\* appends its own record: a line yields a got_ip record if it holds an IP
\* announcement, a firmware record if it holds a firmware version, and at
\* most one of mem, tripwire, task, stack_watermark, by how it begins.
C8_OneRecordPerGrammar ==
    rpc # "parse" =>
        [k \in 1..Len(events) |-> EventType(events[k])] = TypesForAll(rawLog)

\* C8 witness: a memory snapshot line that also holds an IP announcement and
\* a firmware version has produced three records.
C8_Witness ==
    /\ rpc = "poll"
    /\ rawLog = <<(<<"MEM", "IP1", "FW">>)>>
    /\ Len(events) = 3

\* A line no grammar matches.
Unclassified(line) ==
    /\ \A i \in 1..Len(line) : line[i] \notin {"IP1", "FW"}
    /\ line # <<>> => line[1] \notin {"MEM", "MEMLOW", "MEMHB", "MEMMQTT", "TRIP", "TRIPGE",
                                      "TASK", "STACK"}

\* C9: the reader's handling of a line that matches no grammar appends one
\* entry to the raw journal and leaves the structured, memory and task
\* journals as they were.
C9_UnclassifiedLine ==
    [][/\ (rpc = "split" /\ rpc' = "parse") => Len(rawLog') = Len(rawLog) + 1
       /\ (rpc = "parse" /\ rpc' = "split" /\ Unclassified(cur)) =>
              /\ events' = events
              /\ memLog' = memLog
              /\ taskLog' = taskLog
              /\ rawLog' = rawLog]_vars

\* C9 witness: a line whose memory snapshot is not at its start has been
\* handled, and the three journals are empty.
C9_Witness ==
    /\ rpc = "poll"
    /\ rawLog = <<(<<"X", "MEM">>)>>
    /\ events = <<>>
    /\ memLog = <<>>
    /\ taskLog = <<>>


\* Both deltas of a pair are within their tolerances.
BothWithin(a, b) ==
    /\ b.heap_internal_free - a.heap_internal_free \in -2048..2048
    /\ b.psram_free - a.psram_free \in -8192..8192

\* C10: when the probes of a call gave usable readings, the sample the
\* sampler returns is the B of the last pair it compared; while wait budget
\* remains that pair is within both tolerances and is the first such pair
\* among those compared; a B whose pair exceeds a tolerance is returned only
\* with the budget used up.
C10_FirstStablePair ==
    (hpc = "returned" /\ hret.kind = "ok" /\ ha.kind = "ok") =>
        /\ nCompared >= 1
        /\ hret = hb
        /\ IF BothWithin(ha, hb)
           THEN nStable = 1
           ELSE nStable = 0 /\ elapsed >= MaxWaitS

\* C10 witness: the sampler returned the B of the second pair it compared,
\* which is within both tolerances, with wait budget left.
C10_Witness ==
    /\ hpc = "returned"
    /\ nCompared = 2
    /\ nStable = 1
    /\ hret = hb
    /\ hret.kind = "ok"
    /\ BothWithin(ha, hb)
    /\ ha # hb
    /\ elapsed < MaxWaitS

\* C11 (as stated): whenever at least one probe of the call succeeded, the
\* sampler returns a sample.
C11_Original ==
    (hpc = "returned" /\ nProbes >= 2) => hret.kind # "none"

\* C11 (amended): when every probe of the call gave a reading, the sampler
\* returns the last sample it obtained, stable or not: with the budget used
\* up and no pair stable, that is the B of the last pair compared.  A probe
\* without a reading ends the call with no reading, whatever came before.
C11_LastSampleAfterBudget ==
    hpc = "returned" =>
        IF probeFailed
        THEN hret = NoReading
        ELSE /\ nProbes >= 2
             /\ hret = hb
             /\ hret.kind # "none"

\* C11 witness: two pairs were compared, neither was stable, the budget is
\* used up and the sampler returned the B of the second pair.
C11_Witness ==
    /\ hpc = "returned"
    /\ ~probeFailed
    /\ nCompared = 2
    /\ nStable = 0
    /\ elapsed >= MaxWaitS
    /\ hret = hb
    /\ hret.kind = "ok"

\* C12 (as stated): after an unstable pair the next comparison is between
\* its B and one newly taken sample: one new probe per further iteration.
C12_Original ==
    (hpc \in {"sleep", "b"} /\ nCompared >= 1) =>
        /\ ha = hlast
        /\ nProbes = nCompared + 1

\* C12 (amended): every iteration takes two new probes, A and then B, and
\* compares them with each other; the B of an unstable pair is kept only as
\* the value to return when the budget runs out.
C12_TwoProbesPerIteration ==
    /\ hpc = "loop" => nProbes = 2 * nCompared
    /\ hpc \in {"sleep", "b"} => nProbes = 2 * nCompared + 1
    /\ (hpc = "loop" /\ nCompared >= 1) => hlast = hb

\* C12 witness: after an unstable pair, a second iteration has taken a new
\* A that differs from the B kept from the first.
C12_Witness ==
    /\ hpc = "sleep"
    /\ nCompared = 1
    /\ nProbes = 3
    /\ ha # hlast
    /\ ~BothWithin(hlast, ha)

IsMarker(line) ==
    \/ line # <<>> /\ line[1] \in {"ROM", "RST"}
    \/ \E i \in 1..Len(line) : line[i] = "BOOT"

\* C14 (as stated): the run escalates to the manual-confirmation prompt only
\* when no boot marker appeared on serial after the reboot request and
\* within the timeout: none of the lines pushed before the deadline of the
\* ESP-ROM wait and taken off the queue by that wait is a marker.
C14_AnyMarkerDetected ==
    pc = "reboot_prompt" =>
        \A i \in (markerWindow.from + 1)..Min(markerWindow.to, markerWindow.seen) :
            ~IsMarker(rawLog[i])

\* C15 (as stated): in the portal-load scenario a heartbeat line that the
\* device sent after the scenario started satisfies the terminal heartbeat
\* wait only if it was pushed after the last page GET; a heartbeat already
\* in the queue at that moment does not satisfy it.
C15_HeartbeatAfterStress ==
    (pc = "s2_hb" /\ wpc = "returned" /\ ret # NoLine
        /\ pushedAt.http # -1 /\ ret.id > pushedAt.scenario)
        => ret.id > pushedAt.http

\* The pause setting lists the checkpoint, or lists "all".
Listed(checkpoint) == "all" \in cfg.pause \/ checkpoint \in cfg.pause

\* C16: the run calls input() only in interactive mode, and at a named pause
\* checkpoint only when the pause setting lists the checkpoint or "all";
\* without interactive mode no checkpoint, missed-marker escalation or manual
\* scenario ever blocks.
C16_BlocksOnlyWhenInteractive ==
    /\ blockedAt # {} => cfg.interactive
    /\ \A p \in blockedAt \cap DOMAIN PauseNext : Listed(PauseCheckpoint[p])
    /\ "s2_page" \in blockedAt => Listed("after_get")
    /\ blockedAt \subseteq (DOMAIN PauseNext) \cup {"s2_page", "reboot_prompt", "scenario"}

\* A run that blocked at a listed checkpoint and then went on.
C16_Witness ==
    /\ "pause_after_ip" \in blockedAt
    /\ pc = "done"

\* The record types SerialFollower._emit_structured appends to events.jsonl
\* from the reader thread, and those the orchestrator appends to it.
ReaderTypes == {"event", "mem", "tripwire", "task", "stack_watermark"}
OrchestratorTypes == {"http", "note", "ready"}

\* C20 (as stated): no journal file receives appends from both the reader
\* thread and the orchestrator during a run: events.jsonl never holds a
\* record written by the one and a record written by the other.
C20_NoSharedJournal ==
    ~ /\ \E i \in 1..Len(events) : events[i].type \in ReaderTypes
      /\ \E j \in 1..Len(events) : events[j].type \in OrchestratorTypes

\* C18 (as stated): when the serial port cannot be opened, no run directory
\* has been created.
C18_NoRunDirOnBadPort ==
    (raisedAt = "start" /\ exc = "OSError" /\ fd = "none") => runDir = "absent"

\* The names main registers, as texts: the scenario keys and their aliases.
RegisteredNames == {Plain(k) : k \in SCENARIOS \cup DOMAIN SCENARIO_ALIASES}
\* The command line names a scenario that, trimmed and lower-cased, is
\* neither a key nor an alias.
UnknownScenario ==
    /\ args.named
    /\ args.scenario # Plain("")
    /\ LowerName(StripName(args.scenario)) \notin RegisteredNames

\* C19: with an unknown scenario name main returns 2 before a Harness is
\* constructed (no run directory, the serial port never opened); and every
\* run that main starts has one of the six scenario keys in its config,
\* dispatches to that scenario's script and never takes the unknown-scenario
\* branch of run().
C19_UnknownNameExitsTwo ==
    /\ UnknownScenario =>
           /\ pc \in {"main", "done"}
           /\ pc = "done" => exitCode = 2
           /\ runDir = "absent"
           /\ fd = "none"
    /\ pc \notin {"main", "done"} =>
           /\ cfg.scenario \in SCENARIOS
           /\ rc # 2
    /\ pc \in {"s1_after_ip", "s1_hb", "s1_after_hb"} => cfg.scenario = "s1"
    /\ pc \in {"s2_before", "s2_page", "s2_settle", "s2_hb", "s2_after"}
           => cfg.scenario = "s2"
    /\ pc \in {"s4_before", "s4_hb", "s4_after"} => cfg.scenario = "s4"
    /\ pc \in {"s5_before", "s5_mqtt", "s5_hb", "s5_after"} => cfg.scenario = "s5"
    /\ pc \in {"s6_before", "s6_hb", "s6_after"} => cfg.scenario = "s6"
    /\ (pc = "done" /\ runDir = "created") => exitCode \in {0, 1}

\* An unknown name in upper case with blanks around it: main has returned 2.
C19_Witness ==
    /\ UnknownScenario
    /\ args.scenario.upper
    /\ args.scenario.pad
    /\ pc = "done"
    /\ exitCode = 2

\* The run has ended with both summary documents written and exit code 0,
\* or a summary document could not be written.
BaselineDone ==
    /\ pc = "done"
    /\ \/ summaryJson = "written" /\ summaryMd = "written" /\ exitCode = 0
       \/ summaryJson = "failed"
       \/ summaryMd = "failed"

\* The step that follows the open port: the marker wait of a reboot request,
\* or the checkpoint after it when no reboot was asked for.
RebootWait ==
    IF cfg.reboot THEN pc = "marker_rom" ELSE pc = "pause_after_reboot"

ReaderAccess == rpc \in {"ip_write", "fw_write"}
OrchAccess == pc \in {"ip_read", "fw_read"}
ReaderBlocking ==
    rpc \in {"poll", "split", "parse", "ip_emit", "fw_emit", "parse_rest"}
OrchBlocking == wpc # "idle" \/ hpc # "idle"

\* C21: a thread at a read or write of last_ip or firmware_version holds the
\* state lock, so the two threads are never at such an access together; and
\* whoever holds the lock is inside its with block, not at select, a queue
\* access, a journal write or an HTTP call.
C21_AccessUnderLock ==
    /\ ReaderAccess => state_lock = "reader"
    /\ OrchAccess => state_lock = "orch"
    /\ ~(ReaderAccess /\ OrchAccess)
    /\ state_lock = "reader" => ~ReaderBlocking
    /\ state_lock = "orch" =>
          ~OrchBlocking /\ pc \in {"ip_read", "ip_unlock", "fw_read", "fw_unlock"}

\* The reader holds the lock and is about to write the first IP; the
\* orchestrator, which made one call already, is between two calls.
C21_Witness ==
    /\ rpc = "ip_write"
    /\ state_lock = "reader"
    /\ pc = "lock_driver"
    /\ nCalls = 1
    /\ last_ip = None

\* The network failed without an answer of the device.
TransportFailure == httpCall.net.kind \in {"timeout", "url_error"}

\* C22: a call of Harness.http that met a transport failure gave up only
\* after it had tried again: it called urlopen more than once.
C22_RetriedBeforeGivingUp ==
    (httpCall # NoCall /\ TransportFailure) => httpCall.urlopens > 1

\* The device answered and the answer reached the harness whole: no body
\* was asked for or carried, or the body was read to its end.
Answered ==
    /\ httpCall.net.kind \in {"response", "http_error"}
    /\ ~httpCall.read_body \/ ~httpCall.net.fp \/ httpCall.net.body = "ok"

\* C23: Harness.http raises nothing; an answer of the device, 2xx or not, is
\* returned with the status the device sent, and anything else (timeout,
\* URL error, a body that cannot be read) as status 0.
C23_NeverRaises ==
    httpCall # NoCall =>
        /\ httpRet.raised = None
        /\ Answered => httpRet.status = httpCall.net.code
        /\ ~Answered => httpRet.status = 0

Least(S) == CHOOSE x \in S : \A y \in S : x <= y
Greatest(S) == CHOOSE x \in S : \A y \in S : x >= y

\* The values of one counter in the memory lines of the end-to-end stream.
StreamCounter(k) == {MemFields(f)[k] : f \in {"MEM", "MEMHB"}}

\* C24: a baseline run that received the whole stream, whose heartbeat wait
\* returned the heartbeat and whose two summary documents were written has
\* ended with exit code 0, and its derived minima and maximum are those of
\* the memory lines of the stream.
C24_EndToEnd ==
    (/\ pc = "done"
     /\ stream = E2EStream
     /\ ret # NoLine
     /\ ret.text = <<"MEMHB">>
     /\ summaryJson = "written"
     /\ summaryMd = "written") =>
        /\ exitCode = 0
        /\ DOMAIN derived.metrics # {}
        /\ derived.metrics.hin_min = Least(StreamCounter("hin"))
        /\ derived.metrics.hm_min = Least(StreamCounter("hm"))
        /\ derived.metrics.pf_min = Least(StreamCounter("pf"))
        /\ derived.metrics.pm_min = Least(StreamCounter("pm"))
        /\ derived.metrics.frag_max = Greatest(StreamCounter("frag"))

\* _derive_metrics runs in this step.
Deriving == pc = "derive_driver" /\ pc' = "derived"
\* The values of one counter in the records of the memory journal.
Counter(k) == {MemFields(memLog[i].event)[k] : i \in 1..Len(memLog)}
MetricKeys == {"hin_min", "hm_min", "pf_min", "pm_min", "frag_max"}

\* C25: the metrics derived from a memory journal with records are the least
\* hin, hm, pf and pm and the greatest frag of its records; derived from an
\* empty or missing journal they have none of these keys.
C25_MetricsAreAggregates ==
    [][Deriving =>
          IF memLog = <<>>
          THEN MetricKeys \cap DOMAIN derived'.metrics = {}
          ELSE /\ MetricKeys \subseteq DOMAIN derived'.metrics
               /\ derived'.metrics.hin_min = Least(Counter("hin"))
               /\ derived'.metrics.hm_min = Least(Counter("hm"))
               /\ derived'.metrics.pf_min = Least(Counter("pf"))
               /\ derived'.metrics.pm_min = Least(Counter("pm"))
               /\ derived'.metrics.frag_max = Greatest(Counter("frag"))]_vars

\* The metrics were derived from a journal of two records, each of which
\* gives one of the minima: hin of the second line, hm of the first.
C25_Witness ==
    /\ pc = "derived"
    /\ DOMAIN derived.metrics # {}
    /\ derived.metrics.hin_min = MemFields("MEMLOW").hin
    /\ derived.metrics.hm_min = MemFields("MEM").hm
    /\ derived.metrics.frag_max = MemFields("MEMLOW").frag

\* The places of the tripwire records in the structured journal.
TripwireAt == {i \in 1..Len(events) : events[i].type = "tripwire"}

\* C26: the derived tripwire finding is fired exactly when the structured
\* journal holds a tripwire record, and then carries the tag, the hin and
\* the threshold of the first of them as they were on the line; with no
\* such record, or no journal, it is fired = false.
C26_FirstTripwireReported ==
    [][Deriving =>
          IF TripwireAt = {}
          THEN derived'.tripwire = [fired |-> FALSE]
          ELSE LET first == events[Least(TripwireAt)].event
               IN  /\ derived'.tripwire.fired
                   /\ derived'.tripwire.tag = TripwireFields(first).tag
                   /\ derived'.tripwire.hin = TripwireFields(first).hin
                   /\ derived'.tripwire.threshold = TripwireFields(first).threshold]_vars

\* Two tripwire lines were journalled and the finding reports the first.
C26_Witness ==
    /\ pc = "derived"
    /\ derived.tripwire.fired
    /\ Cardinality(TripwireAt) = 2
    /\ events[1].event # events[2].event
    /\ derived.tripwire.tag = TripwireFields(events[1].event).tag
    /\ derived.tripwire.hin = TripwireFields(events[1].event).hin

\* The entries of the raw journal, one per serial line, that hold a marker.
MarkerAt == {i \in 1..Len(rawLog) : FirstMarker(rawLog[i], 1) # None}

\* C27: panic detection reports the number, counted from 1, of the first
\* line of the raw journal that holds a crash marker, with the kind of the
\* first configured marker found in that line; with no such line it reports
\* detected = false.
C27_FirstMarkerLine ==
    [][Deriving =>
          IF MarkerAt = {}
          THEN derived'.panic = [detected |-> FALSE]
          ELSE /\ derived'.panic.detected
               /\ derived'.panic.line_no = Least(MarkerAt)
               /\ derived'.panic.kind = FirstMarker(rawLog[Least(MarkerAt)], 1)]_vars

\* C29: every tripwire record in the structured journal has an internal
\* free value below its threshold.
C29_TripwireBelowThreshold ==
    \A i \in TripwireAt :
        TripwireFields(events[i].event).hin < TripwireFields(events[i].event).threshold

\* The tags of a journal, and the last record of a journal with a tag.
TagsOf(rows) == {rows[i].tag : i \in 1..Len(rows)}
LastWith(rows, t) == rows[Greatest({i \in 1..Len(rows) : rows[i].tag = t})]

\* C28: the table compare_runs prints has one line for every tag of either
\* run; a field of a tag that both runs have shows the value in the last
\* record of run B with that tag minus the value in the last record of run A
\* with it, and a field of a tag that only one run has shows n/a.
C28_DeltasOfLastRecords ==
    (pc = "compared" /\ TagsOf(rows_a) \cup TagsOf(rows_b) # {}) =>
        /\ DOMAIN printed.table = TagsOf(rows_a) \cup TagsOf(rows_b)
        /\ \A t \in DOMAIN printed.table, k \in {"hin", "hm", "frag", "pf"} :
              IF t \in TagsOf(rows_a) \cap TagsOf(rows_b)
              THEN /\ ~printed.table[t][k].na
                   /\ printed.table[t][k].value =
                          LastWith(rows_b, t)[k] - LastWith(rows_a, t)[k]
              ELSE printed.table[t][k].na

\* Run A has two records with one tag and differing counters, run B has
\* that tag and one more: the table shows a delta and an n/a.
C28_Witness ==
    /\ pc = "compared"
    /\ Len(rows_a) = 2
    /\ rows_a[1].tag = rows_a[2].tag
    /\ rows_a[1].hin # rows_a[2].hin
    /\ TagsOf(rows_b) = {"boot", "hb"}
    /\ ~printed.table["boot"]["hin"].na
    /\ printed.table["hb"]["hin"].na

\* C30: a pass of the reader's loop that got no data leaves the thread at
\* the head of its loop with its buffer and logs as they were, and the thread
\* has returned only if the stop signal is set.
C30_ReadErrorsNotFatal ==
    [][/\ readErrors' > readErrors =>
            (rpc' = "poll" /\ UNCHANGED <<buf, rawLog, lines, fd>>)
       /\ rpc' = "exited" => stopFlag']_vars

\* Two passes without data, and the thread went on to read and frame a line
\* and is at the head of its loop, not stopped.
C30_Witness ==
    /\ readErrors = MaxReadErrors
    /\ rawLog # <<>>
    /\ rpc = "poll"
    /\ ~stopFlag
    /\ fd = "open"

\* A record of health.jsonl for a probe that was skipped.
Skipped(r) == r.type = "health" /\ r.skipped
\* No request for /api/health is on record: every record of health.jsonl is
\* a skipped one and events.jsonl logs no fetch of /api/health.
NoHealthRequest ==
    /\ \A i \in 1..Len(healthLog) : Skipped(healthLog[i])
    /\ \A i \in 1..Len(events) : events[i] # HealthGet

\* C31: with --no-health no request for /api/health is ever made, in the
\* bursts of s6 neither, and each capture_health call appends one skipped
\* record to health.jsonl and gives no reading.
C31_NoHealthNoRequest ==
    [][~cfg.health' =>
          /\ NoHealthRequest'
          /\ nProbes' = nProbes + 1 =>
                /\ Len(healthLog') = Len(healthLog) + 1
                /\ Skipped(healthLog'[Len(healthLog')])
                /\ probeFailed'
                /\ hret' = NoReading]_vars

\* A --no-health run of s6 that made both bursts and both captures.
C31_Witness ==
    /\ ~cfg.health
    /\ cfg.scenario = "s6"
    /\ pc = "done"
    /\ rc = 0
    /\ Len(healthLog) = 2
    /\ \E i \in 1..Len(events) : events[i] = Note("S6: phase 3/3")

\* What the reader has appended to each journal once it has parsed the first
\* k lines of serial.log.
RECURSIVE StructuredUpTo(_)
StructuredUpTo(k) ==
    IF k = 0 THEN <<>> ELSE StructuredUpTo(k - 1) \o StructuredFor(rawLog[k])
RECURSIVE MemUpTo(_)
MemUpTo(k) == IF k = 0 THEN <<>> ELSE MemUpTo(k - 1) \o MemEvents(rawLog[k])
RECURSIVE TaskUpTo(_)
TaskUpTo(k) ==
    IF k = 0 THEN <<>>
    ELSE TaskUpTo(k - 1) \o TaskEvents(rawLog[k]) \o StackEvents(rawLog[k])
IsPrefix(a, b) == Len(a) <= Len(b) /\ a = SubSeq(b, 1, Len(a))

\* wait_for has returned a line that some grammar of the reader matches.
ReturnedClassified ==
    /\ wpc = "returned"
    /\ ret # NoLine
    /\ StructuredFor(ret.text) # <<>>

\* C32: when wait_for has returned a line that the reader classifies, the
\* records of that line are in events.jsonl and in mem.jsonl or tasks.jsonl.
C32_JournalledBeforeVisible ==
    ReturnedClassified =>
        /\ IsPrefix(StructuredUpTo(ret.id), events)
        /\ IsPrefix(MemUpTo(ret.id), memLog)
        /\ IsPrefix(TaskUpTo(ret.id), taskLog)

\* C33: when wait_for has returned a line that announces an IP, current_ip
\* is the IP of that line.
C33_CurrentIpIsAnnounced ==
    (wpc = "returned" /\ ret # NoLine /\ Search(IP_RE, ret.text)) =>
        current_ip = "IP1"

\* C34: when run() has ended with its summary written and the reader thread
\* has returned, the derived metrics of the summary are those the journals
\* give now.
C34_DerivedFromFinalJournals ==
    (pc = "done" /\ rpc = "exited" /\ summaryJson = "written") =>
        derived = derive_metrics

\* C35: the list _http_parallel_get returns has one result per URL, in the
\* order of the URLs, and the result at a position is the outcome of the
\* request made for that position (status 0 when its worker raised), with
\* repeated URLs too.
C35_ResultPerPosition ==
    pc = "parallel_returned" =>
        /\ Len(burst) = Len(urls)
        /\ \A i \in 1..Len(urls) :
              /\ burst[i].url = urls[i]
              /\ burst[i].status = (IF issued[i].raised THEN 0 ELSE issued[i].status)

\* wait_for_reboot_marker returns True in this step.
MarkerAccepted ==
    /\ pc \in {"marker_rom", "marker_rst", "marker_boot"}
    /\ ~saw_reboot_marker
    /\ saw_reboot_marker'

\* C36: when the reboot request was sent and a marker wait confirms the
\* reboot, the line it returned was pushed after the request: a marker line
\* pushed between serial.start() and the request does not confirm it.
C36_MarkerAfterRequest ==
    [][(MarkerAccepted /\ cfg.ip # None) => ret.id > markerWindow.from]_vars

\* C37: when the readiness wait is over and the readiness marker is among
\* the lines the waits of the run have taken off the queue, events.jsonl has
\* a ready record.
C37_ReadyRecorded ==
    (pc = "pause_after_ip"
        /\ \E k \in 1..Len(dequeued) :
              Search(SETUP_COMPLETE_RE, rawLog[dequeued[k]])) =>
        \E j \in 1..Len(events) : events[j].type = "ready"

\* C38: a reboot_fire_and_forget call for a configured IP whose connection
\* succeeded has put the POST on the wire, with the Authorization header
\* when basic auth is configured, and has logged a record without an error.
C38_RebootRequestSent ==
    (rebootCall # NoReboot /\ cfg.reboot /\ cfg.ip # None /\ rebootCall.net = "ok") =>
        /\ rebootCall.sent
        /\ cfg.auth # None => "Authorization" \in rebootCall.headers
        /\ rebootCall.error = None
        /\ events # <<>>
        /\ events[Len(events)].event = "fire_and_forget"
        /\ events[Len(events)].error = None

\* C39: when _save_config_no_reboot has POSTed, the GET had returned 200
\* with a JSON object, every key of the payload is an allowed field that the
\* fetched config has, and every secret field of the payload is "".
C39_PayloadAllowedAndBlanked ==
    (pc = "config_saved" /\ configSave.posted) =>
        /\ deviceConfig.status = 200
        /\ deviceConfig.kind = "object"
        /\ DOMAIN configSave.payload \subseteq AllowedFields \cap DOMAIN deviceConfig.doc
        /\ \A k \in DOMAIN configSave.payload \cap SecretFields :
              configSave.payload[k] = ""

\* A fetched config with a stored password and a field that is not allowed:
\* the payload has the password blanked and lacks the other field.
C39_Witness ==
    /\ pc = "config_saved"
    /\ configSave.posted
    /\ "firmware" \in DOMAIN deviceConfig.doc
    /\ "wifi_password" \in DOMAIN deviceConfig.doc
    /\ deviceConfig.doc["wifi_password"] = "x"
    /\ "wifi_password" \in DOMAIN configSave.payload
    /\ "firmware" \notin DOMAIN configSave.payload

\* The bytes of a stream after its last LF.
RECURSIVE Fragment(_)
Fragment(bytes) ==
    IF \E j \in 1..Len(bytes) : bytes[j] = LF THEN Fragment(Tail(bytes))
    ELSE bytes

\* C40: every entry of serial.log and every line pushed to the queue is a
\* line of the bytes received that its LF completed; the bytes after the last
\* LF stay in the reader's buffer, and when the reader has returned they have
\* given no entry and no push.
C40_OnlyCompleteLines ==
    /\ IsPrefix(rawLog, LinesOf(stream))
    /\ Len(lines) = Len(rawLog)
    /\ \A i \in 1..Len(lines) : lines[i].text = LinesOf(stream)[i]
    /\ rpc \in {"poll", "exited"} =>
          /\ buf = Fragment(stream)
          /\ Len(rawLog) = Len(LinesOf(stream))

\* The reader was stopped while it held an unterminated fragment that
\* followed a complete line.
C40_Witness ==
    /\ rpc = "exited"
    /\ stopFlag
    /\ Fragment(stream) # <<>>
    /\ Len(rawLog) = 1
    /\ Len(stream) > Len(Fragment(stream))

=============================================================================
